---- MODULE Spec2Model ----
(***************************************************************************)
(* A model of the DeRec cryptographic core (rsinha/lib-derec):             *)
(*   - the hybrid pairing handshake (cryptography/src/pairing, library/    *)
(*     src/pairing),                                                       *)
(*   - Shamir sharing over a prime field (cryptography/src/vss/shamir.rs), *)
(*   - the share-set consistency check and the Merkle commitment           *)
(*     (cryptography/src/vss/utils.rs),                                    *)
(*   - the sharing and recovery orchestrators (library/src/sharing,        *)
(*     library/src/recovery).                                              *)
(*                                                                         *)
(* Cryptographic primitives are scaled down, not idealised away: the       *)
(* elliptic curve group and ML-KEM become Diffie-Hellman in small prime    *)
(* groups, the scalar field of BW6-761 becomes the integers modulo a small *)
(* prime, a byte has a few bits.  SHA-256 digests that are only compared   *)
(* are kept as injective terms (no collisions); digests that are consumed  *)
(* as key bytes are computed numerically.                                  *)
(***************************************************************************)
EXTENDS Integers, Sequences, FiniteSets, TLC

(***************************************************************************)
(* Results of fallible calls: Ok(v), Err(e), and Panic for an abort        *)
(* (unwrap/expect on a failure, index out of range).                       *)
(***************************************************************************)
None == [tag |-> "None"]
Some(v) == [tag |-> "Some", val |-> v]
Ok(v) == [tag |-> "Ok", val |-> v]
Err(e) == [tag |-> "Err", err |-> e]
Panic == [tag |-> "Panic"]
IsOk(r) == r.tag = "Ok"
IsErr(r) == r.tag = "Err"
IsPanic(r) == r.tag = "Panic"

RECURSIVE PowMod(_, _, _)
\* b^e mod m by repeated multiplication
PowMod(b, e, m) == IF e = 0 THEN 1 % m ELSE (b * PowMod(b, e - 1, m)) % m

RECURSIVE Xor(_, _)
\* bitwise exclusive or of two naturals
Xor(a, b) ==
  IF a = 0 THEN b
  ELSE IF b = 0 THEN a
  ELSE ((a + b) % 2) + 2 * Xor(a \div 2, b \div 2)

(***************************************************************************)
(* Bounds of the model.                                                    *)
(***************************************************************************)
\* number of distinct 32-byte seeds handed to the pairing functions
MaxPairSeed == 4
\* number of distinct nonces the contactor can draw
MaxNonce == 2

(***************************************************************************)
(*                              PAIRING                                    *)
(***************************************************************************)
\* pairing_mlkem.rs: fixed byte sizes of ML-KEM-768
ENCAPSULATION_KEY_SIZE == 1184
DECAPSULATION_KEY_SIZE == 2400
CIPHERTEXT_SIZE == 1088

\* The group standing in for the module lattice of ML-KEM: Z_13^*, generator 2
KemModulus == 13
KemGenerator == 2
KemOrder == 12
\* The group standing in for secp256k1: Z_11^*, generator 2
CurveModulus == 11
CurveGenerator == 2
CurveOrder == 10
\* channel keys and shared secrets are 32 bytes in the code, KeyBits bits here
KeySpace == 16

\* rand_chacha::ChaCha8Rng::from_seed(entropy): the i-th draw of the stream
ChaChaDraw(seed, i) == (11 + 5 * seed + 3 * i + seed * seed * (i + 1)) % 60

\* a byte string of a fixed nominal length carrying a value
Bytes(len, v) == [len |-> len, v |-> v]

\* SHA-256 of a serialized curve point, as a key
Sha256Key(point) == (point * 11 + 5) % KeySpace
\* the key derivation inside ML-KEM (hash of the decrypted message)
KemKdf(v) == (v * 7 + 3) % KeySpace

\* pairing_mlkem::as_array::<N>
as_array(input, N) == IF input.len # N THEN None ELSE Some(input.v)

\* pairing_mlkem::generate_encapsulation_key: <<dk, ek>>
generate_encapsulation_key(seed, at) ==
  LET d == ChaChaDraw(seed, at) % KemOrder
  IN  << Bytes(DECAPSULATION_KEY_SIZE, d),
         Bytes(ENCAPSULATION_KEY_SIZE, PowMod(KemGenerator, d, KemModulus)) >>

\* pairing_mlkem::encapsulate: Ok(<<ct, shared secret>>), aborts on a key of
\* the wrong length (as_array(..).unwrap())
encapsulate(ek_encoded, seed, at) ==
  LET ek == as_array(ek_encoded, ENCAPSULATION_KEY_SIZE)
      r  == ChaChaDraw(seed, at) % KemOrder
  IN  IF ek = None THEN Panic
      ELSE Ok(<< Bytes(CIPHERTEXT_SIZE, PowMod(KemGenerator, r, KemModulus)),
                 KemKdf(PowMod(ek.val, r, KemModulus)) >>)

\* pairing_mlkem::decapsulate: Ok(shared secret); aborts on a decapsulation
\* key or a ciphertext of the wrong length (unwrap)
decapsulate(dk_encoded, ctxt) ==
  LET dk == as_array(dk_encoded, DECAPSULATION_KEY_SIZE)
  IN  IF dk = None THEN Panic
      ELSE IF ctxt.len # CIPHERTEXT_SIZE THEN Panic
      ELSE Ok(KemKdf(PowMod(ctxt.v, dk.val, KemModulus)))

\* uncompressed serialization of a curve point / of a scalar: two digits
SerializePoint(p) == << p \div 4, p % 4 >>
\* Affine::deserialize_uncompressed with validation: -1 when the bytes are
\* not a point of the group
DeserializePoint(b) ==
  LET p == 4 * b[1] + b[2]
  IN  IF Len(b) = 2 /\ b[1] \in 0..3 /\ b[2] \in 0..3 /\ p \in 1..(CurveModulus - 1)
      THEN p ELSE -1

\* pairing_ecies::generate_key: Ok(<<sk, pk>>)
generate_key(seed, at) ==
  LET sk == ChaChaDraw(seed, at) % CurveOrder
  IN  Ok(<< sk, SerializePoint(PowMod(CurveGenerator, sk, CurveModulus)) >>)

derive_shared_key_swapped(sk, pk) ==
  Ok(Sha256Key(PowMod(CurveGenerator, sk, CurveModulus)))

\* pairing_ecies::derive_shared_key: SHA-256 of the serialized point pk * sk
derive_shared_key(sk, pk) ==
  LET p == DeserializePoint(pk)
  IN  IF p = -1 THEN Err("SerializationError")
      ELSE Ok(Sha256Key(PowMod(p, sk, CurveModulus)))

\* pairing::contact_message: Ok(<<PairingContactMessageMaterial,
\* PairingSecretKeyMaterial>>)
contact_message(entropy) ==
  LET kem == generate_encapsulation_key(entropy, 0)
      ec  == generate_key(entropy, 1)
  IN  IF ~IsOk(ec) THEN ec
      ELSE Ok(<< [mlkem_encapsulation_key |-> kem[2],
                  ecies_public_key |-> ec.val[2]],
                 [mlkem_decapsulation_key |-> Some(kem[1]),
                  mlkem_shared_secret |-> None,
                  ecies_secret_key |-> ec.val[1]] >>)

\* pairing::pairing_request_message: Ok(<<PairingRequestMessageMaterial,
\* PairingSecretKeyMaterial>>)
pairing_request_message(entropy, received) ==
  LET enc == encapsulate(received.mlkem_encapsulation_key, entropy, 0)
      ec  == generate_key(entropy, 1)
  IN  IF ~IsOk(enc) THEN enc
      ELSE IF ~IsOk(ec) THEN ec
      ELSE Ok(<< [mlkem_ciphertext |-> enc.val[1],
                  ecies_public_key |-> ec.val[2]],
                 [mlkem_decapsulation_key |-> None,
                  mlkem_shared_secret |-> Some(enc.val[2]),
                  ecies_secret_key |-> ec.val[1]] >>)

finish_pairing_requestor_norole(secrets, received) ==
  LET ecies == derive_shared_key(secrets.ecies_secret_key, received.ecies_public_key)
  IN  IF ~IsOk(ecies) THEN ecies
      ELSE Ok(Xor(IF secrets.mlkem_shared_secret = None THEN 0
                  ELSE secrets.mlkem_shared_secret.val, ecies.val))

\* pairing::finish_pairing_requestor
finish_pairing_requestor(secrets, received) ==
  IF secrets.mlkem_shared_secret = None THEN Err("PairingStateError")
  ELSE LET ecies == derive_shared_key(secrets.ecies_secret_key,
                                      received.ecies_public_key)
       IN  IF ~IsOk(ecies) THEN ecies
           ELSE Ok(Xor(secrets.mlkem_shared_secret.val, ecies.val))

\* pairing::finish_pairing_contactor
finish_pairing_contactor(secrets, received) ==
  IF secrets.mlkem_decapsulation_key = None THEN Err("PairingStateError")
  ELSE LET mlkem == decapsulate(secrets.mlkem_decapsulation_key.val,
                                received.mlkem_ciphertext)
           ecies == derive_shared_key(secrets.ecies_secret_key,
                                      received.ecies_public_key)
       IN  IF ~IsOk(mlkem) THEN mlkem
           ELSE IF ~IsOk(ecies) THEN ecies
           ELSE Ok(Xor(mlkem.val, ecies.val))


(***************************************************************************)
(* Library layer of the pairing handshake (library/src/pairing/pairing.rs) *)
(***************************************************************************)
\* derec_proto::SenderKind
SharerNonRecovery == 0
SharerRecovery == 1
Helper == 2
\* derec_proto::StatusEnum::Ok
StatusOk == 0
\* a status an integrator reports for a failure
StatusFail == 1

\* pairing::create_contact_message; .expect aborts on an error
create_contact_message(channel_id, transport_uri, seed, nonce) ==
  LET r == contact_message(seed)
  IN  IF ~IsOk(r) THEN Panic
      ELSE Ok(<< [public_key_id |-> channel_id,
                  transport_uri |-> transport_uri,
                  mlkem_encapsulation_key |-> r.val[1].mlkem_encapsulation_key,
                  ecies_public_key |-> r.val[1].ecies_public_key,
                  nonce |-> nonce,
                  message_encoding_type |-> 0],
                 r.val[2] >>)

\* produce_pairing_request_message with a nonce of its own
produce_pairing_request_message_own_nonce(channel_id, kind, contact, seed) ==
  LET pk == [mlkem_encapsulation_key |-> contact.mlkem_encapsulation_key,
             ecies_public_key |-> contact.ecies_public_key]
      r  == pairing_request_message(seed, pk)
  IN  IF ~IsOk(r) THEN Panic
      ELSE Ok(<< [sender_kind |-> kind,
                  mlkem_ciphertext |-> r.val[1].mlkem_ciphertext,
                  ecies_public_key |-> r.val[1].ecies_public_key,
                  public_key_id |-> channel_id,
                  nonce |-> 0],
                 r.val[2] >>)

\* pairing::produce_pairing_request_message; .expect aborts on an error
produce_pairing_request_message(channel_id, kind, contact, seed) ==
  LET pk == [mlkem_encapsulation_key |-> contact.mlkem_encapsulation_key,
             ecies_public_key |-> contact.ecies_public_key]
      r  == pairing_request_message(seed, pk)
  IN  IF ~IsOk(r) THEN Panic
      ELSE Ok(<< [sender_kind |-> kind,
                  mlkem_ciphertext |-> r.val[1].mlkem_ciphertext,
                  ecies_public_key |-> r.val[1].ecies_public_key,
                  public_key_id |-> channel_id,
                  nonce |-> contact.nonce],
                 r.val[2] >>)

\* pairing::produce_pairing_response_message; .expect aborts on an error
produce_pairing_response_message(kind, pair_request, secrets) ==
  LET pairing_request == [mlkem_ciphertext |-> pair_request.mlkem_ciphertext,
                          ecies_public_key |-> pair_request.ecies_public_key]
      response_msg == [sender_kind |-> kind,
                       result |-> [status |-> StatusOk],
                       nonce |-> pair_request.nonce]
      sk == finish_pairing_contactor(secrets, pairing_request)
  IN  IF ~IsOk(sk) THEN Panic ELSE Ok(<< response_msg, sk.val >>)

\* process_pairing_response_message refusing a response whose status is
\* not OK
process_pairing_response_message_status_read(contact, pair_response, secrets) ==
  LET pk == [mlkem_encapsulation_key |-> contact.mlkem_encapsulation_key,
             ecies_public_key |-> contact.ecies_public_key]
      sk == finish_pairing_requestor(secrets, pk)
  IN  IF pair_response.result.status # StatusOk THEN Err("PairingStateError")
      ELSE IF ~IsOk(sk) THEN Panic ELSE sk

\* pairing::process_pairing_response_message; the response is not read
process_pairing_response_message(contact, pair_response, secrets) ==
  LET pk == [mlkem_encapsulation_key |-> contact.mlkem_encapsulation_key,
             ecies_public_key |-> contact.ecies_public_key]
      sk == finish_pairing_requestor(secrets, pk)
  IN  IF ~IsOk(sk) THEN Panic ELSE sk

VARIABLES
  contactor,  \* the side that issues the contact message: pc, seed, secret, key
  requestor,  \* the side that answers it: pc, seed, secret, contact, key
  wire,       \* the messages in flight: contact, request, response
  tampered,   \* which parts of the messages in flight were altered
  roleCall,   \* the last call that finished a handshake with the other role's secret
  shamir,     \* a caller of Shamir sharing: pc, secret, access, seed, shares,
              \* picked, result
  recovery,   \* a sharer and its helpers: pc, payload, secret_id, version,
              \* access, entropy, stored, order, responses, defects, result
  detect,     \* a party checking shares: pc, payload, access, original,
              \* presented, edits, result, recovered
  sharing,    \* a caller of protect_secret and a helper answering a share
              \* request: pc, the arguments, output, channel, stored, request,
              \* response
  sealed,     \* a channel carrying one sealed frame: pc, key, seed, msg,
              \* sent, frame, edit, opened
  merkle,     \* a Merkle tree over shares: pc, shares, depth, seed, tree, n,
              \* proofs
  verification,
              \* a sharer polling a helper for its share: pc, channels,
              \* version, seeds, requests, channel, blob, asked, response, edit,
              \* expected, result
  mixed
              \* two sharings of one secret id and version: pc, secret_id,
              \* version, access, payloads, entropies, stored, order,
              \* responses, result

pairVars == << contactor, requestor, wire, tampered, roleCall >>
\* the variables of the components other than the pairing handshake
notPairVars == << shamir, recovery, detect, sharing, sealed,
                  merkle,
                  verification,
                  mixed >>
\* the variables of the components other than Shamir sharing
notShamirVars == << pairVars, recovery, detect, sharing, sealed,
                    merkle,
                    verification,
                    mixed >>
\* the variables of the components other than sharing and recovery
notRecoveryVars == << pairVars, shamir, detect, sharing, sealed,
                      merkle,
                      verification,
                      mixed >>
\* the variables of the components other than the consistency check
notDetectVars == << pairVars, shamir, recovery, sharing, sealed,
                    merkle,
                    verification,
                    mixed >>
\* the variables of the components other than the calls of protect_secret
notSharingVars == << pairVars, shamir, recovery, detect, sealed, merkle,
                     verification,
                     mixed >>
\* the variables of the components other than the sealed channel
notSealedVars == << pairVars, shamir, recovery, detect, sharing, merkle,
                    verification,
                    mixed >>
\* the variables of the components other than the Merkle tree
notMerkleVars == << pairVars, shamir, recovery, detect, sharing, sealed,
                    verification,
                    mixed >>
\* the variables of the components other than share verification
notVerificationVars == << pairVars, shamir, recovery, detect, sharing, sealed,
                          merkle,
                          mixed >>
\* the variables of the components other than the two sharings
notMixedVars == << pairVars, shamir, recovery, detect, sharing, sealed,
                   merkle, verification >>

PairSeeds == 0..(MaxPairSeed - 1)
Nonces == 1..MaxNonce
ContactorChannel == 42
RequestorChannel == 99

\* the contactor, the requestor and the wire before or outside a handshake
ContactorAt(pc) == [pc |-> pc, seed |-> 0, secret |-> None, key |-> None]
RequestorAt(pc) ==
  [pc |-> pc, seed |-> 0, secret |-> None, contact |-> None, key |-> None]
EmptyWire == [contact |-> None, request |-> None, response |-> None]

\* the contactor publishes a contact message
CreateContact ==
  /\ contactor.pc = "INIT"
  /\ \E seed \in PairSeeds, nonce \in Nonces :
       LET r == create_contact_message(ContactorChannel, "uri", seed, nonce)
       IN  /\ contactor' = IF IsOk(r)
                THEN [contactor EXCEPT !.pc = "AWAIT_REPLY", !.seed = seed,
                                       !.secret = Some(r.val[2])]
                ELSE [contactor EXCEPT !.pc = "FAILED", !.seed = seed]
           /\ wire' = IF IsOk(r) THEN [wire EXCEPT !.contact = Some(r.val[1])]
                      ELSE wire
  /\ UNCHANGED << requestor, tampered, roleCall >>
  /\ UNCHANGED notPairVars

\* the requestor answers the contact message it received
ProduceRequest ==
  /\ requestor.pc = "INIT"
  /\ wire.contact # None
  /\ \E seed \in PairSeeds, kind \in {Helper} :
       LET r == produce_pairing_request_message(RequestorChannel, kind,
                                                wire.contact.val, seed)
       IN  /\ requestor' = IF IsOk(r)
                THEN [requestor EXCEPT !.pc = "AWAIT_REPLY", !.seed = seed,
                        !.secret = Some(r.val[2]), !.contact = wire.contact]
                ELSE [requestor EXCEPT !.pc = "FAILED", !.seed = seed,
                        !.contact = wire.contact]
           /\ wire' = IF IsOk(r) THEN [wire EXCEPT !.request = Some(r.val[1])]
                      ELSE wire
  /\ UNCHANGED << contactor, tampered, roleCall >>
  /\ UNCHANGED notPairVars

\* the contactor answers the pair request it received and is keyed
ProduceResponse ==
  /\ contactor.pc = "AWAIT_REPLY"
  /\ wire.request # None
  /\ LET r == produce_pairing_response_message(SharerNonRecovery,
                                               wire.request.val,
                                               contactor.secret.val)
     IN  /\ contactor' = IF IsOk(r)
              THEN [contactor EXCEPT !.pc = "KEYED", !.key = Some(r.val[2])]
              ELSE [contactor EXCEPT !.pc = "FAILED"]
         /\ wire' = IF IsOk(r) THEN [wire EXCEPT !.response = Some(r.val[1])]
                    ELSE wire
  /\ UNCHANGED << requestor, tampered, roleCall >>
  /\ UNCHANGED notPairVars

\* the requestor processes the pair response it received and is keyed
ProcessResponse ==
  /\ requestor.pc = "AWAIT_REPLY"
  /\ wire.response # None
  /\ LET r == process_pairing_response_message(requestor.contact.val,
                                               wire.response.val,
                                               requestor.secret.val)
     IN  requestor' = IF IsOk(r)
            THEN [requestor EXCEPT !.pc = "KEYED", !.key = Some(r.val)]
            ELSE [requestor EXCEPT !.pc = "FAILED"]
  /\ UNCHANGED << contactor, wire, tampered, roleCall >>
  /\ UNCHANGED notPairVars

\* the ways one field of a contact message can be altered in flight
AlteredContacts(m) ==
  { << "contact_material", [m EXCEPT !.mlkem_encapsulation_key.v = (@ + 1) % KemModulus] >>,
    << "contact_material", [m EXCEPT !.mlkem_encapsulation_key.len = @ - 1] >>,
    << "contact_material", [m EXCEPT !.ecies_public_key =
          SerializePoint((DeserializePoint(@) % (CurveModulus - 1)) + 1)] >>,
    << "contact_material", [m EXCEPT !.ecies_public_key = << 3, 3 >>] >>,
    << "contact_nonce", [m EXCEPT !.nonce = @ + 1] >> }

\* the ways one field of a pair request can be altered in flight
AlteredRequests(m) ==
  { << "request_material", [m EXCEPT !.mlkem_ciphertext.v = (@ + 1) % KemModulus] >>,
    << "request_material", [m EXCEPT !.mlkem_ciphertext.len = @ + 1] >>,
    << "request_material", [m EXCEPT !.ecies_public_key =
          SerializePoint((DeserializePoint(@) % (CurveModulus - 1)) + 1)] >>,
    << "request_material", [m EXCEPT !.ecies_public_key = << 0, 0 >>] >>,
    << "request_nonce", [m EXCEPT !.nonce = @ + 1] >> }

\* the ways one field of a pair response can be altered in flight
AlteredResponses(m) ==
  { << "response_status", [m EXCEPT !.result.status = StatusFail] >>,
    << "response_nonce", [m EXCEPT !.nonce = @ + 1] >>,
    << "response_kind", [m EXCEPT !.sender_kind = Helper] >> }

\* the network alters the contact message before the requestor reads it
TamperContact ==
  /\ wire.contact # None
  /\ requestor.pc = "INIT"
  /\ tampered = {}
  /\ \E a \in AlteredContacts(wire.contact.val) :
       /\ wire' = [wire EXCEPT !.contact = Some(a[2])]
       /\ tampered' = tampered \cup {a[1]}
  /\ UNCHANGED << contactor, requestor, roleCall >>
  /\ UNCHANGED notPairVars

\* the network alters the pair request before the contactor reads it
TamperRequest ==
  /\ wire.request # None
  /\ contactor.pc = "AWAIT_REPLY"
  /\ tampered = {}
  /\ \E a \in AlteredRequests(wire.request.val) :
       /\ wire' = [wire EXCEPT !.request = Some(a[2])]
       /\ tampered' = tampered \cup {a[1]}
  /\ UNCHANGED << contactor, requestor, roleCall >>
  /\ UNCHANGED notPairVars

\* the network alters the pair response before the requestor reads it
TamperResponse ==
  /\ wire.response # None
  /\ requestor.pc = "AWAIT_REPLY"
  /\ tampered = {}
  /\ \E a \in AlteredResponses(wire.response.val) :
       /\ wire' = [wire EXCEPT !.response = Some(a[2])]
       /\ tampered' = tampered \cup {a[1]}
  /\ UNCHANGED << contactor, requestor, roleCall >>
  /\ UNCHANGED notPairVars

\* request material a caller may hand to finish_pairing_contactor
RequestMaterials ==
  { [mlkem_ciphertext |-> Bytes(len, c), ecies_public_key |-> pk] :
      len \in {CIPHERTEXT_SIZE, CIPHERTEXT_SIZE - 1}, c \in {0, 2},
      pk \in {SerializePoint(4), << 0, 0 >>} }
\* contact material a caller may hand to finish_pairing_requestor
ContactMaterials ==
  { [mlkem_encapsulation_key |-> Bytes(len, c), ecies_public_key |-> pk] :
      len \in {ENCAPSULATION_KEY_SIZE, ENCAPSULATION_KEY_SIZE + 1}, c \in {0, 2},
      pk \in {SerializePoint(4), << 0, 0 >>} }

\* a caller finishes as contactor with the secret pairing_request_message made
FinishContactorWithRequestorSecret ==
  /\ requestor.secret # None
  /\ roleCall = None
  /\ \E m \in RequestMaterials :
       roleCall' = [fn |-> "finish_pairing_contactor", received |-> m,
                    result |-> finish_pairing_contactor(requestor.secret.val, m)]
  /\ UNCHANGED << contactor, requestor, wire, tampered >>
  /\ UNCHANGED notPairVars

\* a caller finishes as requestor with the secret contact_message made
FinishRequestorWithContactorSecret ==
  /\ contactor.secret # None
  /\ roleCall = None
  /\ \E m \in ContactMaterials :
       roleCall' = [fn |-> "finish_pairing_requestor", received |-> m,
                    result |-> finish_pairing_requestor(contactor.secret.val, m)]
  /\ UNCHANGED << contactor, requestor, wire, tampered >>
  /\ UNCHANGED notPairVars

NextPairing ==
  \/ CreateContact
  \/ ProduceRequest
  \/ ProduceResponse
  \/ ProcessResponse
  \/ TamperContact
  \/ TamperRequest
  \/ TamperResponse
  \/ FinishContactorWithRequestorSecret
  \/ FinishRequestorWithContactorSecret


(***************************************************************************)
(*                     SHAMIR SHARING (vss/shamir.rs)                      *)
(***************************************************************************)
\* the byte: ByteBits bits, values 0 .. ByteBase - 1
ByteBits == 2
ByteBase == 4
\* the security parameter: the length in bytes of a Shamir secret (32)
Lambda == 2
\* the order of the scalar field F (ark_bw6_761::Fr), above ByteBase^Lambda
FieldModulus == 17
\* the length in bytes of a serialized field element
FieldBytes == 3

\* number of seeds a random number generator can be started from
MaxSeed == 4
\* number of entropy values protect_secret and vss::share are called with
MaxEntropy == 2
\* number of share versions
MaxVersion == 2
\* largest number of unusable responses handed to one recovery
MaxDefects == 2
\* largest number of alterations made to one presented set of shares
MaxEdits == 1
\* largest number of shares (channels) of one sharing
MaxN == 3

FieldElements == 0..(FieldModulus - 1)
ByteValues == 0..(ByteBase - 1)

\* F::rand(rng), the i-th draw of the generator started from seed.  The draws
\* of one generator are pairwise distinct over FieldModulus consecutive
\* draws: two equal draws from a 377-bit field are not modelled.
FieldRand(seed, i) ==
  ((3 * seed + 1) + i * (1 + ((5 * seed) % (FieldModulus - 1)))) % FieldModulus

\* the inverse of a non-zero field element
FieldInverse(a) == PowMod(a % FieldModulus, FieldModulus - 2, FieldModulus)
FieldSub(a, b) == (a + FieldModulus - b) % FieldModulus

RECURSIVE ByteToBits(_, _)
\* the bits of one byte, most significant first
ByteToBits(byte, i) ==
  IF i = 0 THEN << >>
  ELSE << (byte \div (2 ^ (i - 1))) % 2 >> \o ByteToBits(byte, i - 1)

RECURSIVE bytes_to_bits_be(_)
\* shamir::bytes_to_bits_be
bytes_to_bits_be(x) ==
  IF x = << >> THEN << >>
  ELSE ByteToBits(Head(x), ByteBits) \o bytes_to_bits_be(Tail(x))

RECURSIVE from_bits_be(_)
\* BigInteger::from_bits_be
from_bits_be(bits) ==
  IF bits = << >> THEN 0
  ELSE 2 * from_bits_be(SubSeq(bits, 1, Len(bits) - 1)) + bits[Len(bits)]

\* serialize_compressed of a field element: little-endian bytes
encode_point(v) == [i \in 1..FieldBytes |-> (v \div (ByteBase ^ (i - 1))) % ByteBase]

RECURSIVE LeValue(_)
LeValue(b) == IF b = << >> THEN 0 ELSE Head(b) + ByteBase * LeValue(Tail(b))

\* F::deserialize_compressed: reads FieldBytes bytes; an error when there are
\* too few of them or when they are no element of the field
deserialize_compressed(b) ==
  IF Len(b) < FieldBytes THEN Err("SerializationError")
  ELSE IF \E i \in 1..FieldBytes : b[i] \notin ByteValues
       THEN Err("SerializationError")
  ELSE LET v == LeValue(SubSeq(b, 1, FieldBytes))
       IN  IF v >= FieldModulus THEN Err("SerializationError") ELSE Ok(v)

\* the little-endian bytes of a field element
to_bytes_le(v) ==
  [i \in 1..FieldBytes |-> (v \div (ByteBase ^ (i - 1))) % ByteBase]

\* into_bigint().to_bytes_be(): big-endian bytes of a field element
to_bytes_be(v) ==
  [i \in 1..FieldBytes |-> (v \div (ByteBase ^ (FieldBytes - i))) % ByteBase]

RECURSIVE Evaluate(_, _)
\* DensePolynomial::evaluate (coefficients from the constant term up)
Evaluate(coeffs, x) ==
  IF coeffs = << >> THEN 0
  ELSE (Head(coeffs) + x * Evaluate(Tail(coeffs), x)) % FieldModulus

\* shamir::share: n points of a random polynomial of degree t - 1 whose
\* constant term is the secret; coeffs[0] = .. aborts when t = 0
shamir_share(secret, access, seed) ==
  LET t == access[1]
      n == access[2]
      coeffs == [k \in 1..t |->
                   IF k = 1 THEN from_bits_be(bytes_to_bits_be(secret))
                   ELSE FieldRand(seed, k - 1)]
      point(i) == LET x == FieldRand(seed, t + i - 1)
                  IN  << encode_point(x), encode_point(Evaluate(coeffs, x)) >>
  IN  IF t = 0 THEN Panic
      ELSE Ok([i \in 1..n |-> point(i)])

RECURSIVE LagrangeProduct(_, _, _, _)
\* the product over j # i of (x - x_j) / (x_i - x_j)
LagrangeProduct(xs, x, i, j) ==
  IF j > Len(xs) THEN 1
  ELSE IF j = i THEN LagrangeProduct(xs, x, i, j + 1)
  ELSE (FieldSub(x, xs[j]) * FieldInverse(FieldSub(xs[i], xs[j]))
          * LagrangeProduct(xs, x, i, j + 1)) % FieldModulus

\* shamir::lagrange_coefficients; dividing by x_i - x_j = 0 aborts
lagrange_coefficients(xs, x) ==
  IF \E i, j \in 1..Len(xs) : i # j /\ xs[i] = xs[j] THEN Panic
  ELSE Ok([i \in 1..Len(xs) |-> LagrangeProduct(xs, x, i, 1)])

RECURSIVE InnerProduct(_, _)
InnerProduct(a, b) ==
  IF a = << >> \/ b = << >> THEN 0
  ELSE (Head(a) * Head(b) + InnerProduct(Tail(a), Tail(b))) % FieldModulus

\* shamir::recover: interpolation at 0 from all the shares given; unwrap
\* aborts on bytes that are no field element
shamir_recover(shares) ==
  LET xs == [i \in 1..Len(shares) |-> deserialize_compressed(shares[i][1])]
      ys == [i \in 1..Len(shares) |-> deserialize_compressed(shares[i][2])]
  IN  IF \E i \in 1..Len(shares) : ~IsOk(xs[i]) \/ ~IsOk(ys[i]) THEN Panic
      ELSE LET lagrange_coeffs ==
                 lagrange_coefficients([i \in 1..Len(shares) |-> xs[i].val], 0)
           IN  IF ~IsOk(lagrange_coeffs) THEN Panic
               ELSE LET secret == InnerProduct(
                                    [i \in 1..Len(shares) |-> ys[i].val],
                                    lagrange_coeffs.val)
                    IN  Ok(SubSeq(to_bytes_be(secret),
                                  FieldBytes - Lambda + 1, FieldBytes))


(***************************************************************************)
(*        SHARE-SET CONSISTENCY AND MERKLE COMMITMENT (vss/utils.rs)       *)
(*                                                                         *)
(* A byte string is a sequence of integers: bytes are 0 .. ByteBase - 1.   *)
(* A SHA-256 digest that is only ever compared is the term of its input,   *)
(* written between the markers -1 and -2, so that two digests are equal    *)
(* exactly when their inputs are equal byte strings.                       *)
(***************************************************************************)
\* utils::compute_sha256_hash
compute_sha256_hash(input) == << -1 >> \o input \o << -2 >>

leaf_hash_x_only(share) == compute_sha256_hash(share[1])

\* utils::leaf_hash: SHA256(x || y)
leaf_hash(share) == compute_sha256_hash(share[1] \o share[2])

\* utils::intermediate_hash: SHA256(left || right)
intermediate_hash(left, right) == compute_sha256_hash(left \o right)

RECURSIVE FoldPath(_, _)
\* the walk of detect_error along a Merkle path (lines 30..37)
FoldPath(on_path_hash, merkle_path) ==
  IF merkle_path = << >> THEN on_path_hash
  ELSE LET is_left == Head(merkle_path)[1]
           node_hash == Head(merkle_path)[2]
       IN  FoldPath(IF is_left THEN intermediate_hash(node_hash, on_path_hash)
                    ELSE intermediate_hash(on_path_hash, node_hash),
                    Tail(merkle_path))

RECURSIVE DetectFrom_no_ciphertexts(_, _, _, _)
\* the loop of detect_error without the comparison of the ciphertexts
DetectFrom_no_ciphertexts(shares, i, commitment, encrypted_secret) ==
  IF i > Len(shares) THEN None
  ELSE IF shares[i].commitment # commitment
       THEN Some("InconsistentCommitments")
  ELSE IF FoldPath(leaf_hash(<< shares[i].x, shares[i].y >>),
                   shares[i].merkle_path) # commitment
       THEN Some("CorruptShares")
  ELSE DetectFrom_no_ciphertexts(shares, i + 1, commitment, encrypted_secret)

RECURSIVE DetectFrom(_, _, _, _)
\* the loop of detect_error from the i-th share on
DetectFrom(shares, i, commitment, encrypted_secret) ==
  IF i > Len(shares) THEN None
  ELSE IF shares[i].commitment # commitment
       THEN Some("InconsistentCommitments")
  ELSE IF shares[i].encrypted_secret # encrypted_secret
       THEN Some("InconsistentCiphertexts")
  ELSE IF FoldPath(leaf_hash(<< shares[i].x, shares[i].y >>),
                   shares[i].merkle_path) # commitment
       THEN Some("CorruptShares")
  ELSE DetectFrom(shares, i + 1, commitment, encrypted_secret)

\* detect_error testing every share against the commitment it carries itself
detect_error_own_commitment(shares) ==
  IF shares = << >> THEN Panic
  ELSE IF \E i \in 1..Len(shares) :
            FoldPath(leaf_hash(<< shares[i].x, shares[i].y >>),
                     shares[i].merkle_path) # shares[i].commitment
       THEN Some("CorruptShares")
  ELSE DetectFrom(shares, 1, shares[1].commitment, shares[1].encrypted_secret)

\* detect_error testing the Merkle path of every share and nothing else
detect_error_paths_only(shares) ==
  IF shares = << >> THEN Panic
  ELSE IF \E i \in 1..Len(shares) :
            FoldPath(leaf_hash(<< shares[i].x, shares[i].y >>),
                     shares[i].merkle_path) # shares[i].commitment
       THEN Some("CorruptShares")
  ELSE None

\* utils::detect_error: None, or Some(error); shares[0] aborts on no shares
detect_error(shares) ==
  IF shares = << >> THEN Panic
  ELSE DetectFrom(shares, 1, shares[1].commitment, shares[1].encrypted_secret)

\* rng.fill(&mut rand): the garbage value of the i-th leaf without a share
RandomLeaf(seed, i) == << -3, seed, i >>

\* build_merkle_tree hashing the right child before the left
build_merkle_tree_right_first(shares, depth, seed) ==
  LET num_leaf_nodes == 2 ^ depth
      RECURSIVE node(_)
      node(node_label) ==
        IF node_label >= num_leaf_nodes
        THEN LET i == node_label - num_leaf_nodes
             IN  IF i < Len(shares) THEN leaf_hash(shares[i + 1])
                 ELSE RandomLeaf(seed, i)
        ELSE intermediate_hash(node(2 * node_label + 1), node(2 * node_label))
  IN  [node_label \in 1..(2 ^ (depth + 1) - 1) |-> node(node_label)]

\* utils::build_merkle_tree: the nodes by label, the root labelled 1
build_merkle_tree(shares, depth, seed) ==
  LET num_leaf_nodes == 2 ^ depth
      RECURSIVE node(_)
      node(node_label) ==
        IF node_label >= num_leaf_nodes
        THEN LET i == node_label - num_leaf_nodes
             IN  IF i < Len(shares) THEN leaf_hash(shares[i + 1])
                 ELSE RandomLeaf(seed, i)
        ELSE intermediate_hash(node(2 * node_label), node(2 * node_label + 1))
  IN  [node_label \in 1..(2 ^ (depth + 1) - 1) |-> node(node_label)]

RECURSIVE PathFrom_own_side(_, _, _)
\* the paths with the side of the node on the path in place of its sibling's
PathFrom_own_side(tree, current_label, steps) ==
  IF steps = 0 THEN << >>
  ELSE LET sibling_label == IF current_label % 2 = 0 THEN current_label + 1
                            ELSE current_label - 1
       IN  << << current_label % 2 = 0, tree[sibling_label] >> >>
             \o PathFrom_own_side(tree, current_label \div 2, steps - 1)

RECURSIVE PathFrom(_, _, _)
\* the inner loop of extract_merkle_proofs: steps siblings from a label up
PathFrom(tree, current_label, steps) ==
  IF steps = 0 THEN << >>
  ELSE LET sibling_label == IF current_label % 2 = 0 THEN current_label + 1
                            ELSE current_label - 1
       IN  << << sibling_label % 2 = 0, tree[sibling_label] >> >>
             \o PathFrom(tree, current_label \div 2, steps - 1)

\* utils::extract_merkle_proofs: the paths of the first n leaves; aborts on a
\* tree that is not complete or that has fewer than n leaves
extract_merkle_proofs(tree, depth, n) ==
  LET lo == Len(tree) \div 2 + 1
      complete == Len(tree) + 1 > 2
                    /\ \E k \in 1..(Len(tree) + 1) : 2 ^ k = Len(tree) + 1
  IN  IF ~complete \/ lo + n - 1 > Len(tree) THEN Panic
      ELSE Ok([i \in 1..n |-> PathFrom(tree, lo + i - 1, depth)])

RECURSIVE Mix(_, _)
\* the compression of a byte string into a number below ByteBase^Lambda
Mix(h, input) ==
  IF input = << >> THEN h
  ELSE Mix((5 * h + Head(input) + 3) % (ByteBase ^ Lambda), Tail(input))

\* a SHA-256 digest read as Lambda key bytes
Sha256Bytes(input) ==
  [i \in 1..Lambda |-> (Mix(7, input) \div (ByteBase ^ (Lambda - i))) % ByteBase]

\* utils::random_oracle: 4 * Lambda bytes, H(msg || rand || tag || [i]), i < 4
random_oracle(msg, rand, tag) ==
  Sha256Bytes(msg \o rand \o tag \o << 0 >>)
    \o Sha256Bytes(msg \o rand \o tag \o << 1 >>)
    \o Sha256Bytes(msg \o rand \o tag \o << 2 >>)
    \o Sha256Bytes(msg \o rand \o tag \o << 3 >>)


(***************************************************************************)
(*   THE VSS ENVELOPE (vss::share, vss::recover), after sections 4.6 and   *)
(*   4.8 of the specification: the Shamir-shared value s is an independent *)
(*   random key, encrypted_secret = r || (M xor RO(s, r, "enc")).          *)
(***************************************************************************)
\* the domain-separation tag "enc"
TagEnc == << 1 >>

\* the randomness r and the key s drawn from the caller's entropy
EnvelopeRand(entropy) == << entropy % ByteBase, (entropy + 1) % ByteBase >>
EnvelopeKey(entropy) ==
  << (2 * entropy + 1) % ByteBase, (entropy + 3) % ByteBase >>

\* M xor the first |M| bytes of the pad
XorPad(msg, pad) == [i \in 1..Len(msg) |-> Xor(msg[i], pad[i])]

RECURSIVE CeilLog2(_)
\* the least d with 2^d >= n
CeilLog2(n) == IF n <= 1 THEN 0 ELSE 1 + CeilLog2((n + 1) \div 2)

\* the fixed depth of the Merkle tree of a sharing: ceil(log2(n)), at least 1
TreeDepth(n) == IF CeilLog2(n) < 1 THEN 1 ELSE CeilLog2(n)

\* vss::share((t, n), msg, entropy): Ok(the n VSSShare), or an error when
\* the access structure is not 1 <= t <= n
vss_share(access, msg, entropy) ==
  LET t == access[1]
      n == access[2]
      r == EnvelopeRand(entropy)
      s == EnvelopeKey(entropy)
      c == r \o XorPad(msg, random_oracle(s, r, TagEnc))
      points == shamir_share(s, access, entropy)
      depth == TreeDepth(n)
      tree == build_merkle_tree(points.val, depth, entropy)
      proofs == extract_merkle_proofs(tree, depth, n)
  IN  IF t < 1 \/ n < 1 \/ t > n THEN Err("ThresholdUnsatisfiable")
      ELSE IF ~IsOk(points) THEN points
      ELSE IF ~IsOk(proofs) THEN proofs
      ELSE Ok([i \in 1..n |->
                 [x |-> points.val[i][1],
                  y |-> points.val[i][2],
                  encrypted_secret |-> c,
                  commitment |-> tree[1],
                  merkle_path |-> proofs.val[i]]])

\* vss::recover(shares): the consistency check, Shamir recovery of s, then
\* M = pad xor the body of encrypted_secret
vss_recover(shares) ==
  LET e == detect_error(shares)
      s == shamir_recover([i \in 1..Len(shares) |-> << shares[i].x, shares[i].y >>])
      c == shares[1].encrypted_secret
      r == SubSeq(c, 1, Lambda)
      body == SubSeq(c, Lambda + 1, Len(c))
  IN  IF IsPanic(e) THEN Panic
      ELSE IF e # None THEN Err(e.val)
      ELSE IF IsPanic(s) THEN Panic
      ELSE IF Len(c) < Lambda \/ Len(body) > 4 * Lambda
           THEN Err("SerializationError")
      ELSE Ok(XorPad(body, random_oracle(s.val, r, TagEnc)))

(***************************************************************************)
(* Protocol buffer messages (prost).  An encoded message is the sequence   *)
(* of its <<field number, value>> pairs; fields holding the default value  *)
(* are left out, and decoding reads a missing field as the default.  Field *)
(* number 0 does not exist: bytes holding it do not decode.                *)
(***************************************************************************)
RECURSIVE FieldOf(_, _, _)
\* the last value of the field in the encoded message, or the default
FieldOf(blob, number, default) ==
  IF blob = << >> THEN default
  ELSE IF blob[Len(blob)][1] = number THEN blob[Len(blob)][2]
  ELSE FieldOf(SubSeq(blob, 1, Len(blob) - 1), number, default)

Decodable(blob) == \A i \in 1..Len(blob) : blob[i][1] # 0

\* bytes that are no encoded message
Undecodable == << << 0, << >> >> >>

\* DeRecShare::encode_to_vec
EncodeDeRecShare(m) ==
  (IF m.encrypted_secret = << >> THEN << >> ELSE << << 1, m.encrypted_secret >> >>)
  \o (IF m.x = << >> THEN << >> ELSE << << 2, m.x >> >>)
  \o (IF m.y = << >> THEN << >> ELSE << << 3, m.y >> >>)
  \o (IF m.secret_id = << >> THEN << >> ELSE << << 4, m.secret_id >> >>)
  \o (IF m.version = 0 THEN << >> ELSE << << 5, m.version >> >>)

\* DeRecShare::decode
DecodeDeRecShare(blob) ==
  IF ~Decodable(blob) THEN Err("DecodeError")
  ELSE Ok([encrypted_secret |-> FieldOf(blob, 1, << >>),
           x |-> FieldOf(blob, 2, << >>),
           y |-> FieldOf(blob, 3, << >>),
           secret_id |-> FieldOf(blob, 4, << >>),
           version |-> FieldOf(blob, 5, 0)])

\* CommittedDeRecShare::encode_to_vec; merkle_path is a repeated SiblingHash
EncodeCommittedDeRecShare(m) ==
  (IF m.de_rec_share = << >> THEN << >> ELSE << << 1, m.de_rec_share >> >>)
  \o (IF m.commitment = << >> THEN << >> ELSE << << 2, m.commitment >> >>)
  \o (IF m.merkle_path = << >> THEN << >> ELSE << << 3, m.merkle_path >> >>)

\* CommittedDeRecShare::decode
DecodeCommittedDeRecShare(blob) ==
  IF ~Decodable(blob) THEN Err("DecodeError")
  ELSE Ok([de_rec_share |-> FieldOf(blob, 1, << >>),
           commitment |-> FieldOf(blob, 2, << >>),
           merkle_path |-> FieldOf(blob, 3, << >>)])

(***************************************************************************)
(*            SHARING ORCHESTRATOR (library/src/sharing/sharing.rs)        *)
(***************************************************************************)
\* the message of protect_secret with the coordinates of the share exchanged
StoreShareRequestOf_swapped(share, secret_id, version) ==
  LET derec_share == [encrypted_secret |-> share.encrypted_secret,
                      x |-> share.y,
                      y |-> share.x,
                      secret_id |-> secret_id,
                      version |-> version]
      committed_derec_share ==
        [de_rec_share |-> EncodeDeRecShare(derec_share),
         commitment |-> share.commitment,
         merkle_path |-> [k \in 1..Len(share.merkle_path) |->
                            [is_left |-> share.merkle_path[k][1],
                             hash |-> share.merkle_path[k][2]]]]
  IN  [share |-> EncodeCommittedDeRecShare(committed_derec_share),
       share_algorithm |-> 0,
       version |-> version,
       keep_list |-> << >>,
       version_description |-> ""]

\* the message of protect_secret with a ciphertext of the share's own
StoreShareRequestOf_own_ciphertext(share, secret_id, version) ==
  LET derec_share == [encrypted_secret |-> share.encrypted_secret \o share.x,
                      x |-> share.x,
                      y |-> share.y,
                      secret_id |-> secret_id,
                      version |-> version]
      committed_derec_share ==
        [de_rec_share |-> EncodeDeRecShare(derec_share),
         commitment |-> share.commitment,
         merkle_path |-> [k \in 1..Len(share.merkle_path) |->
                            [is_left |-> share.merkle_path[k][1],
                             hash |-> share.merkle_path[k][2]]]]
  IN  [share |-> EncodeCommittedDeRecShare(committed_derec_share),
       share_algorithm |-> 0,
       version |-> version,
       keep_list |-> << >>,
       version_description |-> ""]

\* the message protect_secret builds for one share (lines 65..88)
StoreShareRequestOf(share, secret_id, version) ==
  LET derec_share == [encrypted_secret |-> share.encrypted_secret,
                      x |-> share.x,
                      y |-> share.y,
                      secret_id |-> secret_id,
                      version |-> version]
      committed_derec_share ==
        [de_rec_share |-> EncodeDeRecShare(derec_share),
         commitment |-> share.commitment,
         merkle_path |-> [k \in 1..Len(share.merkle_path) |->
                            [is_left |-> share.merkle_path[k][1],
                             hash |-> share.merkle_path[k][2]]]]
  IN  [share |-> EncodeCommittedDeRecShare(committed_derec_share),
       share_algorithm |-> 0,
       version |-> version,
       keep_list |-> << >>,
       version_description |-> ""]

\* the first position of a channel id in the list of channels
FirstIndex(channels, c) ==
  CHOOSE i \in 1..Len(channels) :
    channels[i] = c /\ \A j \in 1..(i - 1) : channels[j] # c

\* the last position of a channel id in the list of channels
LastIndex(channels, c) ==
  CHOOSE i \in 1..Len(channels) :
    channels[i] = c /\ \A j \in (i + 1)..Len(channels) : channels[j] # c

\* protect_secret handing back an empty map when vss::share fails
protect_secret_empty_map(secret_id, secret_data, channels, threshold, version, entropy) ==
  LET vss_shares == vss_share(<< threshold, Len(channels) >>, secret_data, entropy)
  IN  IF IsPanic(vss_shares) THEN Panic
      ELSE IF IsErr(vss_shares) THEN Ok(<< >>)
      ELSE Ok([c \in {channels[i] : i \in 1..Len(channels)} |->
                 StoreShareRequestOf(vss_shares.val[LastIndex(channels, c)],
                                     secret_id, version)])

\* protect_secret keeping no message for a channel listed more than once
protect_secret_drop_repeated(secret_id, secret_data, channels, threshold, version, entropy) ==
  LET vss_shares == vss_share(<< threshold, Len(channels) >>, secret_data, entropy)
  IN  IF IsPanic(vss_shares) THEN Panic
      ELSE IF IsErr(vss_shares) THEN Err("VSS failed to generate shares")
      ELSE Ok([c \in {channels[i] : i \in { j \in 1..Len(channels) :
                         \A k \in 1..Len(channels) :
                           channels[k] = channels[j] => k = j }} |->
                 StoreShareRequestOf(vss_shares.val[LastIndex(channels, c)],
                                     secret_id, version)])

\* sharing::protect_secret: Ok(map from channel id to StoreShareRequestMessage)
protect_secret(secret_id, secret_data, channels, threshold, version, entropy) ==
  LET vss_shares == vss_share(<< threshold, Len(channels) >>, secret_data, entropy)
  IN  IF IsPanic(vss_shares) THEN Panic
      ELSE IF IsErr(vss_shares) THEN Err("VSS failed to generate shares")
      ELSE Ok([c \in {channels[i] : i \in 1..Len(channels)} |->
                 StoreShareRequestOf(vss_shares.val[LastIndex(channels, c)],
                                     secret_id, version)])

(***************************************************************************)
(*           RECOVERY ORCHESTRATOR (library/src/recovery/recovery.rs)      *)
(***************************************************************************)
\* recovery::generate_share_request
generate_share_request(channel_id, secret_id, version) ==
  [secret_id |-> secret_id, share_version |-> version]

\* generate_share_response naming the share algorithm of the stored message
generate_share_response_stored_algorithm(channel_id, secret_id, request, share_content) ==
  [share_algorithm |-> share_content.share_algorithm,
   committed_de_rec_share |-> share_content.share,
   result |-> Some([status |-> StatusOk, memo |-> ""])]

\* recovery::generate_share_response
generate_share_response(channel_id, secret_id, request, share_content) ==
  [share_algorithm |-> 0,
   committed_de_rec_share |-> share_content.share,
   result |-> Some([status |-> StatusOk, memo |-> ""])]

\* extract_share_from_response without the test of the status
extract_share_from_response_any_status(response, secret_id, version) ==
  IF response.result = None THEN Err("Response does not contain a result")
  ELSE LET committed == DecodeCommittedDeRecShare(response.committed_de_rec_share)
       IN  IF ~IsOk(committed) THEN Err("Failed to decode CommittedDeRecShare")
           ELSE LET inner == DecodeDeRecShare(committed.val.de_rec_share)
                IN  IF ~IsOk(inner) THEN Err("Failed to decode DeRecShare")
                    ELSE IF inner.val.secret_id # secret_id
                         THEN Err("Secret ID in response does not match the requested secret ID")
                    ELSE IF inner.val.version # version
                         THEN Err("Share version in response does not match the requested version")
                    ELSE Ok([x |-> inner.val.x,
                             y |-> inner.val.y,
                             encrypted_secret |-> inner.val.encrypted_secret,
                             commitment |-> committed.val.commitment,
                             merkle_path |->
                               [k \in 1..Len(committed.val.merkle_path) |->
                                  << committed.val.merkle_path[k].is_left,
                                     committed.val.merkle_path[k].hash >>]])

\* recovery::extract_share_from_response
extract_share_from_response(response, secret_id, version) ==
  IF response.result = None THEN Err("Response does not contain a result")
  ELSE IF response.result.val.status # StatusOk
       THEN Err("Share response indicates an error")
  ELSE LET committed == DecodeCommittedDeRecShare(response.committed_de_rec_share)
       IN  IF ~IsOk(committed) THEN Err("Failed to decode CommittedDeRecShare")
           ELSE LET inner == DecodeDeRecShare(committed.val.de_rec_share)
                IN  IF ~IsOk(inner) THEN Err("Failed to decode DeRecShare")
                    ELSE IF inner.val.secret_id # secret_id
                         THEN Err("Secret ID in response does not match the requested secret ID")
                    ELSE IF inner.val.version # version
                         THEN Err("Share version in response does not match the requested version")
                    ELSE Ok([x |-> inner.val.x,
                             y |-> inner.val.y,
                             encrypted_secret |-> inner.val.encrypted_secret,
                             commitment |-> committed.val.commitment,
                             merkle_path |->
                               [k \in 1..Len(committed.val.merkle_path) |->
                                  << committed.val.merkle_path[k].is_left,
                                     committed.val.merkle_path[k].hash >>]])

RECURSIVE ExtractUsable(_, _, _, _)
\* the loop skipping the responses it cannot use
ExtractUsable(responses, secret_id, version, shares) ==
  IF responses = << >> THEN Ok(shares)
  ELSE LET r == extract_share_from_response(Head(responses), secret_id, version)
       IN  ExtractUsable(Tail(responses), secret_id, version,
                         IF IsOk(r) THEN Append(shares, r.val) ELSE shares)

RECURSIVE ExtractAll(_, _, _, _)
\* the loop of recover_from_share_responses: the shares, or the first error
ExtractAll(responses, secret_id, version, shares) ==
  IF responses = << >> THEN Ok(shares)
  ELSE LET r == extract_share_from_response(Head(responses), secret_id, version)
       IN  IF IsOk(r)
           THEN ExtractAll(Tail(responses), secret_id, version, Append(shares, r.val))
           ELSE r

\* recovery::recover_from_share_responses
recover_from_share_responses(responses, secret_id, version) ==
  LET shares == ExtractAll(responses, secret_id, version, << >>)
      reconstructed_secret == vss_recover(shares.val)
  IN  IF ~IsOk(shares) THEN shares
      ELSE IF IsPanic(reconstructed_secret) THEN Panic
      ELSE IF IsErr(reconstructed_secret)
           THEN Err("Failed to reconstruct secret from shares")
      ELSE reconstructed_secret


(***************************************************************************)
(* Shamir sharing as a caller uses it: share a secret, hand some of the    *)
(* shares (in any order, possibly one of them twice) to recover.           *)
(***************************************************************************)
\* the secrets of Lambda bytes
Secrets == [1..Lambda -> ByteValues]
\* the access structures (t, n) with 1 <= t <= n <= MaxN
AccessStructures == { a \in (1..MaxN) \X (1..MaxN) : a[1] <= a[2] }
Seeds == 0..(MaxSeed - 1)

\* the caller of Shamir sharing before or outside a sharing
ShamirAt(pc) ==
  [pc |-> pc, secret |-> << >>, access |-> << 0, 0 >>, seed |-> 0,
   shares |-> << >>, picked |-> << >>, result |-> None]

\* share(secret, (t, n), seed)
ShamirShare ==
  /\ shamir.pc = "INIT"
  /\ \E secret \in Secrets, access \in AccessStructures, seed \in Seeds :
       LET r == shamir_share(secret, access, seed)
       IN  /\ IsOk(r)
           /\ shamir' = [shamir EXCEPT !.pc = "SHARED", !.secret = secret,
                                       !.access = access, !.seed = seed,
                                       !.shares = r.val]
  /\ UNCHANGED notShamirVars

\* the caller adds one of the shares to the list it will recover from
PickShare ==
  /\ shamir.pc = "SHARED"
  /\ Len(shamir.picked) < shamir.access[2]
  /\ \E i \in 1..Len(shamir.shares) :
       shamir' = [shamir EXCEPT !.picked = Append(@, shamir.shares[i])]
  /\ UNCHANGED notShamirVars

\* recover(picked)
ShamirRecover ==
  /\ shamir.pc = "SHARED"
  /\ shamir.picked # << >>
  /\ shamir' = [shamir EXCEPT !.pc = "DONE",
                              !.result = shamir_recover(shamir.picked)]
  /\ UNCHANGED notShamirVars

NextShamir ==
  \/ ShamirShare
  \/ PickShare
  \/ ShamirRecover


(***************************************************************************)
(* Sharing and recovery as the sharer and its helpers run them: the sharer *)
(* protects a payload, helpers answer the share request (each at most      *)
(* once, in any order, some with a response that is not usable), and the   *)
(* sharer recovers from the responses it has assembled.                    *)
(***************************************************************************)
\* the payloads: empty, one byte, Lambda bytes
Payloads == { << >>, << 2 >>, << 1, 3 >> }
SecretIds == { << 7 >> }
Versions == 1..MaxVersion
Entropies == 0..(MaxEntropy - 1)
\* the channel of the i-th helper
ChannelOf(i) == 20 + i

\* the ways a response can be unusable (section 4.8, recovery.rs 110..131)
DefectKinds ==
  { "no_result", "status", "committed_undecodable", "share_undecodable",
    "secret_id", "version" }

\* the inner DeRecShare of a stored share, re-encoded after a change
WithInner(blob, inner) ==
  LET committed == DecodeCommittedDeRecShare(blob).val
  IN  EncodeCommittedDeRecShare([committed EXCEPT !.de_rec_share = inner])

\* an OK response made unusable in one way
Defective(response, kind) ==
  LET committed == DecodeCommittedDeRecShare(response.committed_de_rec_share).val
      inner == DecodeDeRecShare(committed.de_rec_share).val
  IN  CASE kind = "no_result" -> [response EXCEPT !.result = None]
        [] kind = "status" ->
             [response EXCEPT !.result = Some([status |-> StatusFail, memo |-> ""])]
        [] kind = "committed_undecodable" ->
             [response EXCEPT !.committed_de_rec_share = Undecodable]
        [] kind = "share_undecodable" ->
             [response EXCEPT !.committed_de_rec_share =
                WithInner(response.committed_de_rec_share, Undecodable)]
        [] kind = "secret_id" ->
             [response EXCEPT !.committed_de_rec_share =
                WithInner(response.committed_de_rec_share,
                          EncodeDeRecShare([inner EXCEPT !.secret_id = Append(@, 0)]))]
        [] kind = "version" ->
             [response EXCEPT !.committed_de_rec_share =
                WithInner(response.committed_de_rec_share,
                          EncodeDeRecShare([inner EXCEPT !.version = @ + 1]))]

\* the sharer before or outside a sharing
RecoveryAt(pc) ==
  [pc |-> pc, payload |-> << >>, secret_id |-> << >>, version |-> 0,
   access |-> << 0, 0 >>, entropy |-> 0, stored |-> << >>, order |-> << >>,
   responses |-> << >>, defects |-> << >>, result |-> None]

\* the sharer calls protect_secret and every helper stores its message
ProtectSecret ==
  /\ recovery.pc = "INIT"
  /\ \E payload \in Payloads, secret_id \in SecretIds, version \in Versions,
        access \in AccessStructures, entropy \in Entropies :
       LET channels == [i \in 1..access[2] |-> ChannelOf(i)]
           r == protect_secret(secret_id, payload, channels, access[1],
                               version, entropy)
       IN  /\ IsOk(r)
           /\ recovery' = [recovery EXCEPT
                 !.pc = "STORED", !.payload = payload,
                 !.secret_id = secret_id, !.version = version,
                 !.access = access, !.entropy = entropy,
                 !.stored = [i \in 1..access[2] |-> r.val[ChannelOf(i)]]]
  /\ UNCHANGED notRecoveryVars

\* the response of the i-th helper to the sharer's share request
ResponseOf(i) ==
  generate_share_response(
    ChannelOf(i), recovery.secret_id,
    generate_share_request(ChannelOf(i), recovery.secret_id, recovery.version),
    recovery.stored[i])

\* the helpers that can answer next: any helper answers first, the others
\* follow in the order of their channels (the code reads the responses in
\* list order and treats none but the first one specially)
NextHelpers ==
  { i \in 1..recovery.access[2] :
      /\ \A k \in 1..Len(recovery.order) : recovery.order[k] # i
      /\ Len(recovery.order) >= 2 => i > recovery.order[Len(recovery.order)] }

\* a helper answers with the share it stored
HelperRespond ==
  /\ recovery.pc = "STORED"
  /\ \E i \in NextHelpers :
       recovery' = [recovery EXCEPT
         !.order = Append(@, i),
         !.responses = Append(@, ResponseOf(i)),
         !.defects = Append(@, "ok")]
  /\ UNCHANGED notRecoveryVars

\* a helper answers with a response that is not usable
HelperDefect ==
  /\ recovery.pc = "STORED"
  /\ Cardinality({k \in 1..Len(recovery.defects) : recovery.defects[k] # "ok"})
       < MaxDefects
  /\ \E i \in NextHelpers, kind \in DefectKinds :
       recovery' = [recovery EXCEPT
         !.order = Append(@, i),
         !.responses = Append(@, Defective(ResponseOf(i), kind)),
         !.defects = Append(@, kind)]
  /\ UNCHANGED notRecoveryVars

\* the sharer calls recover_from_share_responses on what it has assembled
Recover ==
  /\ recovery.pc = "STORED"
  /\ recovery.responses # << >>
  /\ recovery' = [recovery EXCEPT
       !.pc = "DONE",
       !.result = recover_from_share_responses(recovery.responses,
                                               recovery.secret_id,
                                               recovery.version)]
  /\ UNCHANGED notRecoveryVars

\* the sharer calls recover_from_share_responses before any helper answered
RecoverEmpty ==
  /\ recovery.pc = "STORED"
  /\ recovery.responses = << >>
  /\ recovery' = [recovery EXCEPT
       !.pc = "DONE_EMPTY",
       !.result = recover_from_share_responses(<< >>, recovery.secret_id,
                                               recovery.version)]
  /\ UNCHANGED notRecoveryVars

NextRecovery ==
  \/ ProtectSecret
  \/ HelperRespond
  \/ HelperDefect
  \/ Recover
  \/ RecoverEmpty


(***************************************************************************)
(* The share-set consistency check as recovery meets it: some shares of    *)
(* one sharing are presented in some order, after a dishonest helper or    *)
(* the transport has altered fields of them.                               *)
(***************************************************************************)
\* the fields of a share that can be altered on their own, and "resealed":
\* y altered and the commitment set to the root of the share's own path
EditKinds ==
  { "commitment", "encrypted_secret", "x", "y", "sibling_hash", "is_left",
    "resealed" }

\* a byte string with its first byte changed
FlipFirst(b) == [b EXCEPT ![1] = (@ + 1) % ByteBase]

\* the root a share's own (x, y) and path lead to
OwnRoot(share) == FoldPath(leaf_hash(<< share.x, share.y >>), share.merkle_path)

\* one share after one alteration
Altered(share, kind) ==
  CASE kind = "commitment" ->
         [share EXCEPT !.commitment = compute_sha256_hash(@)]
    [] kind = "encrypted_secret" ->
         [share EXCEPT !.encrypted_secret = FlipFirst(@)]
    [] kind = "x" -> [share EXCEPT !.x = FlipFirst(@)]
    [] kind = "y" -> [share EXCEPT !.y = FlipFirst(@)]
    [] kind = "sibling_hash" ->
         [share EXCEPT !.merkle_path[1] = << @[1], compute_sha256_hash(@[2]) >>]
    [] kind = "is_left" ->
         [share EXCEPT !.merkle_path[1] = << ~@[1], @[2] >>]
    [] kind = "resealed" ->
         LET moved == [share EXCEPT !.y = FlipFirst(@)]
         IN  [moved EXCEPT !.commitment = OwnRoot(moved)]

\* the orders shares are presented in: any share first, the others ascending
Presentations(n) ==
  { o \in UNION { [1..k -> 1..n] : k \in 1..n } :
      /\ \A a, b \in 1..Len(o) : a # b => o[a] # o[b]
      /\ \A a, b \in 2..Len(o) : a < b => o[a] < o[b] }

\* the party checking shares before or outside a check
DetectAt(pc) ==
  [pc |-> pc, payload |-> << >>, access |-> << 0, 0 >>, original |-> << >>,
   presented |-> << >>, edits |-> << >>, result |-> None, recovered |-> None]

\* vss::share, and a consistent set of its shares presented for recovery
PresentShares ==
  /\ detect.pc = "INIT"
  /\ \E payload \in Payloads, access \in AccessStructures, entropy \in Entropies :
       LET r == vss_share(access, payload, entropy)
       IN  /\ IsOk(r)
           /\ \E order \in Presentations(access[2]) :
                LET set == [k \in 1..Len(order) |-> r.val[order[k]]]
                IN  detect' = [detect EXCEPT
                      !.pc = "PRESENTED", !.payload = payload,
                      !.access = access, !.original = set, !.presented = set]
  /\ UNCHANGED notDetectVars

\* one field of one presented share is altered
AlterShare ==
  /\ detect.pc = "PRESENTED"
  /\ Len(detect.edits) < MaxEdits
  /\ \E i \in 1..Len(detect.presented), kind \in EditKinds :
       detect' = [detect EXCEPT
         !.presented[i] = Altered(@, kind),
         !.edits = Append(@, << i, kind >>)]
  /\ UNCHANGED notDetectVars

\* detect_error, and vss::recover, on the presented shares
Detect ==
  /\ detect.pc = "PRESENTED"
  /\ detect' = [detect EXCEPT
       !.pc = "DONE",
       !.result = detect_error(detect.presented),
       !.recovered = vss_recover(detect.presented)]
  /\ UNCHANGED notDetectVars

NextDetect ==
  \/ PresentShares
  \/ AlterShare
  \/ Detect

(***************************************************************************)
(* protect_secret as any caller may call it (any threshold, any list of    *)
(* channels, a channel listed twice included), and a helper answering a    *)
(* share request with generate_share_response.                             *)
(***************************************************************************)
\* the thresholds a caller passes: 0 up to one more than the longest list
Thresholds == 0..(MaxN + 1)

\* the lists of at most MaxN channels, up to the names of the channels: a
\* list uses ChannelOf(k + 1) only after ChannelOf(1), .., ChannelOf(k)
ChannelLists ==
  { [i \in 1..Len(l) |-> ChannelOf(l[i])] :
      l \in { m \in UNION { [1..k -> 1..MaxN] : k \in 0..MaxN } :
                \A i \in 1..Len(m) : \A v \in 1..(m[i] - 1) :
                  \E j \in 1..(i - 1) : m[j] = v } }

\* the share requests a helper receives for a stored share: for its secret
\* and version or for another secret or version
RequestsFor(secret_id, version) ==
  { generate_share_request(0, id, v) :
      id \in { secret_id, Append(secret_id, 0) }, v \in { version, version + 1 } }

\* what a helper holds for a message it was sent: the message, or one that
\* names another share algorithm
StoredFor(msg) == { msg, [msg EXCEPT !.share_algorithm = 1] }

\* the caller of protect_secret before or outside a call
SharingAt(pc) ==
  [pc |-> pc, secret_id |-> << >>, secret_data |-> << >>, channels |-> << >>,
   threshold |-> 0, version |-> 0, entropy |-> 0, output |-> None,
   channel |-> 0, stored |-> None, request |-> None, response |-> None]

\* protect_secret(secret_id, secret_data, channels, threshold, version)
ProtectCall ==
  /\ sharing.pc = "INIT"
  /\ \E secret_id \in SecretIds, secret_data \in Payloads,
        channels \in ChannelLists, threshold \in Thresholds,
        version \in Versions, entropy \in Entropies :
       sharing' = [sharing EXCEPT
         !.pc = "CALLED", !.secret_id = secret_id,
         !.secret_data = secret_data, !.channels = channels,
         !.threshold = threshold, !.version = version, !.entropy = entropy,
         !.output = protect_secret(secret_id, secret_data, channels,
                                   threshold, version, entropy)]
  /\ UNCHANGED notSharingVars

\* generate_share_response(channel, secret_id, request, stored) by the
\* helper of one of the channels
ShareResponse ==
  /\ sharing.pc = "CALLED"
  /\ IsOk(sharing.output)
  /\ \E channel \in DOMAIN sharing.output.val :
       \E stored \in StoredFor(sharing.output.val[channel]),
          request \in RequestsFor(sharing.secret_id, sharing.version) :
         sharing' = [sharing EXCEPT
           !.pc = "ANSWERED", !.channel = channel,
           !.stored = Some(stored), !.request = Some(request),
           !.response = Some(generate_share_response(
                               channel, request.secret_id, request, stored))]
  /\ UNCHANGED notSharingVars

NextSharing ==
  \/ ProtectCall
  \/ ShareResponse

(***************************************************************************)
(*        CHANNEL CIPHER (cryptography/src/channel/mod.rs): AES-GCM        *)
(* A counter-mode keystream and a polynomial tag over the field of the     *)
(* model, masked by the cipher block of the nonce; keys, nonce seeds and   *)
(* tags are scaled down with the bytes.                                    *)
(***************************************************************************)
\* the length of a nonce seed (32 bytes in the source)
SeedLen == 3
\* the length of the nonce prefix of a frame (12 bytes in the source)
NonceLen == 2
\* the length of the authentication tag (16 bytes in the source)
TagLen == 3
\* number of channel keys
MaxSealKey == 3

\* the hash subkey of a key: a non-zero field element
HashSubkey(key) == 1 + (LeValue(key) % (FieldModulus - 1))

\* the cipher block of a counter block: a permutation of the nonces
CipherBlock(key, nonce) ==
  (HashSubkey(key) * LeValue(nonce) + LeValue(key)) % FieldModulus

\* the i-th keystream byte under a key and a nonce
Keystream(key, nonce, i) ==
  ((5 * LeValue(key) + 3 * LeValue(nonce) + 7 * i + 1) % FieldModulus) % ByteBase

\* counter mode: the same operation encrypts and decrypts
CtrXor(key, nonce, bytes) ==
  [i \in 1..Len(bytes) |-> Xor(bytes[i], Keystream(key, nonce, i))]

RECURSIVE GHash(_, _, _)
\* the polynomial hash of the ciphertext and of its length
GHash(h, acc, ct) ==
  IF ct = << >> THEN acc
  ELSE GHash(h, ((acc + Head(ct)) * h) % FieldModulus, Tail(ct))

\* the tag without the cipher block of the nonce
GcmTag_unmasked(key, nonce, ct) ==
  LET h == HashSubkey(key)
      g == ((GHash(h, 0, ct) + Len(ct)) * h) % FieldModulus
  IN  encode_point(g)

\* the tag of a ciphertext under a key and a nonce
GcmTag(key, nonce, ct) ==
  LET h == HashSubkey(key)
      g == ((GHash(h, 0, ct) + Len(ct)) * h) % FieldModulus
  IN  encode_point((g + CipherBlock(key, nonce)) % FieldModulus)

\* Aes256Gcm::encrypt: ciphertext followed by the tag
aead_encrypt(key, nonce, msg) ==
  LET ct == CtrXor(key, nonce, msg)
  IN  Ok(ct \o GcmTag(key, nonce, ct))

\* Aes256Gcm::decrypt: an error when the input is shorter than a tag or
\* the tag is not the one of the ciphertext
aead_decrypt(key, nonce, body) ==
  IF Len(body) < TagLen THEN Err("aead::Error")
  ELSE LET ct == SubSeq(body, 1, Len(body) - TagLen)
           tag == SubSeq(body, Len(body) - TagLen + 1, Len(body))
       IN  IF tag # GcmTag(key, nonce, ct) THEN Err("aead::Error")
           ELSE Ok(CtrXor(key, nonce, ct))

\* encrypt_message encrypting under the bytes of the seed after the first
encrypt_message_seed_tail(msg, key, nonce) ==
  LET e == aead_encrypt(key, SubSeq(nonce, 2, NonceLen + 1), msg)
  IN  IF ~IsOk(e) THEN Err("EncryptionError")
      ELSE Ok(SubSeq(nonce, 1, NonceLen) \o e.val)

\* channel::encrypt_message
encrypt_message(msg, key, nonce) ==
  LET e == aead_encrypt(key, SubSeq(nonce, 1, NonceLen), msg)
  IN  IF ~IsOk(e) THEN Err("EncryptionError")
      ELSE Ok(SubSeq(nonce, 1, NonceLen) \o e.val)

\* channel::decrypt_message; the slices ctxt[0..12] and ctxt[12..] abort
\* on a frame shorter than the nonce prefix
decrypt_message(ctxt, key) ==
  IF Len(ctxt) < NonceLen THEN Panic
  ELSE LET d == aead_decrypt(key, SubSeq(ctxt, 1, NonceLen),
                             SubSeq(ctxt, NonceLen + 1, Len(ctxt)))
       IN  IF ~IsOk(d) THEN Err("DecryptionError") ELSE d

(***************************************************************************)
(* One frame on a channel: sealed by the sender, possibly altered or cut   *)
(* short on the way, opened by the receiver under the same key.            *)
(***************************************************************************)
SealKeys == { << k % ByteBase, (3 * k + 1) % ByteBase >> : k \in 0..(MaxSealKey - 1) }
NonceSeeds == [1..SeedLen -> ByteValues]
Plaintexts == { << >>, << 2 >>, << 1, 3 >>, << 3, 0, 2 >> }

\* the channel before or outside a frame
SealedAt(pc) ==
  [pc |-> pc, key |-> << >>, seed |-> << >>, msg |-> << >>, frame |-> << >>,
   sent |-> << >>, edit |-> None, opened |-> None]

\* encrypt_message(msg, key, seed)
Seal ==
  /\ sealed.pc = "INIT"
  /\ \E key \in SealKeys, seed \in NonceSeeds, msg \in Plaintexts :
       LET c == encrypt_message(msg, key, seed)
       IN  /\ IsOk(c)
           /\ sealed' = [sealed EXCEPT !.pc = "SEALED", !.key = key,
                                       !.seed = seed, !.msg = msg,
                                       !.sent = c.val, !.frame = c.val]
  /\ UNCHANGED notSealedVars

\* one byte of the frame in flight is changed
TamperByte ==
  /\ sealed.pc = "SEALED"
  /\ sealed.edit = None
  /\ \E i \in 1..Len(sealed.frame), v \in ByteValues :
       /\ v # sealed.frame[i]
       /\ sealed' = [sealed EXCEPT !.frame[i] = v,
                                   !.edit = Some(<< "byte", i >>)]
  /\ UNCHANGED notSealedVars

\* the frame in flight is cut short
CutFrame ==
  /\ sealed.pc = "SEALED"
  /\ sealed.edit = None
  /\ \E n \in 0..(Len(sealed.frame) - 1) :
       sealed' = [sealed EXCEPT !.frame = SubSeq(@, 1, n),
                                !.edit = Some(<< "cut", n >>)]
  /\ UNCHANGED notSealedVars

\* decrypt_message(frame, key)
Open ==
  /\ sealed.pc = "SEALED"
  /\ sealed' = [sealed EXCEPT !.pc = "OPENED",
                              !.opened = decrypt_message(sealed.frame, sealed.key)]
  /\ UNCHANGED notSealedVars

NextChannel ==
  \/ Seal
  \/ TamperByte
  \/ CutFrame
  \/ Open

(***************************************************************************)
(* A Merkle tree of any depth built over a list of shares, and the proofs  *)
(* of its first leaves extracted (utils.rs, test_merkle_tree).             *)
(***************************************************************************)
\* largest depth of a tree
MaxDepth == 2

\* the lists of k Shamir shares (points with pairwise distinct x)
ShareLists(k) ==
  IF k = 0 THEN { << >> }
  ELSE { shamir_share(secret, << k, k >>, seed).val :
           secret \in Secrets, seed \in Seeds }

\* before or outside the building of a tree
MerkleAt(pc) ==
  [pc |-> pc, shares |-> << >>, depth |-> 0, seed |-> 0, tree |-> << >>,
   n |-> 0, proofs |-> None]

\* build_merkle_tree(shares, depth, rng) over at most 2^depth shares
BuildTree ==
  /\ merkle.pc = "INIT"
  /\ \E depth \in 1..MaxDepth, seed \in Seeds :
       \E k \in 0..(2 ^ depth) : \E shares \in ShareLists(k) :
         merkle' = [merkle EXCEPT
           !.pc = "BUILT", !.shares = shares, !.depth = depth, !.seed = seed,
           !.tree = build_merkle_tree(shares, depth, seed)]
  /\ UNCHANGED notMerkleVars

\* extract_merkle_proofs(tree, depth, n) for the shares or for any number
\* of leaves
ExtractProofs ==
  /\ merkle.pc = "BUILT"
  /\ \E n \in 0..(2 ^ merkle.depth + 1) :
       merkle' = [merkle EXCEPT
         !.pc = "EXTRACTED", !.n = n,
         !.proofs = extract_merkle_proofs(merkle.tree, merkle.depth, n)]
  /\ UNCHANGED notMerkleVars

NextMerkle ==
  \/ BuildTree
  \/ ExtractProofs

(***************************************************************************)
(*     SHARE VERIFICATION (library/src/verification/verification.rs)       *)
(***************************************************************************)
\* Sha384 of everything the hasher was updated with
Sha384(input) == << -4 >> \o input \o << -5 >>

\* nonces that are the same in every call
VerifyNonce_repeating(seed, i) == << 0, 0, i % ByteBase >>

\* rng.fill_bytes(&mut nonce): the i-th nonce drawn in a call that finds
\* the generator of the system in the state seed
VerifyNonce(seed, i) == << seed \div ByteBase, seed % ByteBase, i % ByteBase >>

\* verification::generate_verification_request: a map from channel id to a
\* request with a nonce of its own
generate_verification_request(secret_id, channels, version, seed) ==
  Ok([c \in {channels[i] : i \in 1..Len(channels)} |->
        [version |-> version,
         nonce |-> VerifyNonce(seed, LastIndex(channels, c))]])

\* generate_verification_response hashing the nonce before the share
generate_verification_response_nonce_first(secret_id, channel_id, share_content, request) ==
  Ok([result |-> Some([status |-> StatusOk, memo |-> ""]),
      version |-> request.version,
      nonce |-> request.nonce,
      hash |-> Sha384(request.nonce \o share_content)])

\* verification::generate_verification_response
generate_verification_response(secret_id, channel_id, share_content, request) ==
  Ok([result |-> Some([status |-> StatusOk, memo |-> ""]),
      version |-> request.version,
      nonce |-> request.nonce,
      hash |-> Sha384(share_content \o request.nonce)])

\* verify_share_response accepting every response
verify_share_response_accept_all(secret_id, channel_id, share_content, response) ==
  Ok(TRUE)

\* verification::verify_share_response
verify_share_response(secret_id, channel_id, share_content, response) ==
  IF Sha384(share_content \o response.nonce) = response.hash THEN Ok(TRUE)
  ELSE Err("Verification failed: Hash mismatch")

(***************************************************************************)
(* A sharer polls the helpers of its channels, a helper answers with the   *)
(* hash of what it holds, the sharer may poll again before it verifies an  *)
(* answer, and an answer may be altered on the way.                        *)
(***************************************************************************)
\* largest number of times the sharer polls
MaxRounds == 2

\* share contents held by a helper or expected by the sharer
Blobs == { << 1 >>, << 1, 2 >> }

\* the fields of a response that can be altered
ResponseEdits == { "nonce", "hash", "status", "version" }

\* a response with one field altered
AlteredResponse(response, kind) ==
  CASE kind = "nonce" -> [response EXCEPT !.nonce = FlipFirst(@)]
    [] kind = "hash" -> [response EXCEPT !.hash = Sha384(@)]
    [] kind = "status" ->
         [response EXCEPT !.result = Some([status |-> StatusFail, memo |-> ""])]
    [] kind = "version" -> [response EXCEPT !.version = @ + 1]

\* the sharer and the helper before or outside a poll
VerificationAt(pc) ==
  [pc |-> pc, channels |-> << >>, version |-> 0, seeds |-> << >>,
   requests |-> << >>, channel |-> 0, blob |-> << >>, asked |-> None,
   response |-> None, edit |-> None, expected |-> << >>, result |-> None]

\* generate_verification_request(secret_id, channels, version)
IssueRequests ==
  /\ verification.pc = "INIT"
  /\ \E secret_id \in SecretIds, channels \in ChannelLists,
        version \in Versions, seed \in Seeds :
       LET r == generate_verification_request(secret_id, channels, version, seed)
       IN  /\ IsOk(r)
           /\ verification' = [verification EXCEPT
                 !.pc = "POLLING", !.channels = channels, !.version = version,
                 !.seeds = << seed >>, !.requests = r.val]
  /\ UNCHANGED notVerificationVars

\* generate_verification_response by the helper of one channel
Respond ==
  /\ verification.pc = "POLLING"
  /\ verification.response = None
  /\ \E channel \in DOMAIN verification.requests, blob \in Blobs :
       LET request == verification.requests[channel]
           r == generate_verification_response(<< >>, channel, blob, request)
       IN  /\ IsOk(r)
           /\ verification' = [verification EXCEPT
                 !.channel = channel, !.blob = blob, !.asked = Some(request),
                 !.response = Some(r.val)]
  /\ UNCHANGED notVerificationVars

\* the sharer polls the same channels again, with nonces drawn afresh,
\* while the answer to the earlier poll is still on its way
IssueAgain ==
  /\ verification.pc = "POLLING"
  /\ verification.response # None
  /\ Len(verification.seeds) < MaxRounds
  /\ \E seed \in Seeds :
       /\ seed > verification.seeds[Len(verification.seeds)]
       /\ LET r == generate_verification_request(
                     << >>, verification.channels, verification.version, seed)
          IN  /\ IsOk(r)
              /\ verification' = [verification EXCEPT
                    !.seeds = Append(@, seed), !.requests = r.val]
  /\ UNCHANGED notVerificationVars

\* one field of the response in flight is altered
AlterResponse ==
  /\ verification.pc = "POLLING"
  /\ verification.response # None
  /\ verification.edit = None
  /\ \E kind \in ResponseEdits :
       verification' = [verification EXCEPT
         !.response = Some(AlteredResponse(@.val, kind)),
         !.edit = Some(kind)]
  /\ UNCHANGED notVerificationVars

\* verify_share_response(secret_id, channel, expected, response)
VerifyResponse ==
  /\ verification.pc = "POLLING"
  /\ verification.response # None
  /\ \E expected \in Blobs :
       verification' = [verification EXCEPT
         !.pc = "VERIFIED", !.expected = expected,
         !.result = verify_share_response(<< >>, verification.channel,
                                          expected, verification.response.val)]
  /\ UNCHANGED notVerificationVars

NextVerification ==
  \/ IssueRequests
  \/ Respond
  \/ IssueAgain
  \/ AlterResponse
  \/ VerifyResponse

(***************************************************************************)
(* Two sharings of one secret id and version: the sharer calls             *)
(* protect_secret twice over the same helpers, every helper holds the      *)
(* message of both calls and answers the share request with one of them,   *)
(* and the sharer recovers from the responses it has assembled.            *)
(***************************************************************************)
\* before or outside the two sharings
MixedAt(pc) ==
  [pc |-> pc, secret_id |-> << >>, version |-> 0, access |-> << 0, 0 >>,
   payloads |-> << >>, entropies |-> << >>, stored |-> << >>,
   order |-> << >>, responses |-> << >>, result |-> None]

\* protect_secret called twice for the same secret id, version, threshold
\* and channels, each call drawing entropy of its own
ProtectTwice ==
  /\ mixed.pc = "INIT"
  /\ \E first \in Payloads, second \in Payloads, secret_id \in SecretIds,
        version \in Versions, access \in AccessStructures,
        e1 \in Entropies, e2 \in Entropies :
       LET channels == [i \in 1..access[2] |-> ChannelOf(i)]
           r1 == protect_secret(secret_id, first, channels, access[1],
                                version, e1)
           r2 == protect_secret(secret_id, second, channels, access[1],
                                version, e2)
       IN  /\ e1 < e2
           /\ IsOk(r1)
           /\ IsOk(r2)
           /\ mixed' = [mixed EXCEPT
                 !.pc = "STORED", !.secret_id = secret_id,
                 !.version = version, !.access = access,
                 !.payloads = << first, second >>,
                 !.entropies = << e1, e2 >>,
                 !.stored = << [i \in 1..access[2] |-> r1.val[ChannelOf(i)]],
                               [i \in 1..access[2] |-> r2.val[ChannelOf(i)]] >>]
  /\ UNCHANGED notMixedVars

\* the response of the i-th helper with the message of the k-th sharing
MixedResponseOf(k, i) ==
  generate_share_response(
    ChannelOf(i), mixed.secret_id,
    generate_share_request(ChannelOf(i), mixed.secret_id, mixed.version),
    mixed.stored[k][i])

\* the helpers that can answer next: any helper answers first, the others
\* follow in the order of their channels (the code reads the responses in
\* list order and treats none but the first one specially)
NextMixedHelpers ==
  { i \in 1..mixed.access[2] :
      /\ \A j \in 1..Len(mixed.order) : mixed.order[j][2] # i
      /\ Len(mixed.order) >= 2 => i > mixed.order[Len(mixed.order)][2] }

\* a helper answers with the share of the first or of the second sharing
MixedRespond ==
  /\ mixed.pc = "STORED"
  /\ \E k \in 1..2, i \in NextMixedHelpers :
       mixed' = [mixed EXCEPT
         !.order = Append(@, << k, i >>),
         !.responses = Append(@, MixedResponseOf(k, i))]
  /\ UNCHANGED notMixedVars

\* the sharer calls recover_from_share_responses on what it has assembled
MixedRecover ==
  /\ mixed.pc = "STORED"
  /\ mixed.responses # << >>
  /\ mixed' = [mixed EXCEPT
       !.pc = "DONE",
       !.result = recover_from_share_responses(mixed.responses,
                                               mixed.secret_id, mixed.version)]
  /\ UNCHANGED notMixedVars

NextMixed ==
  \/ ProtectTwice
  \/ MixedRespond
  \/ MixedRecover

(***************************************************************************)
(*                           THE SPECIFICATIONS                            *)
(***************************************************************************)
vars == << contactor, requestor, wire, tampered, roleCall, shamir, recovery,
           detect, sharing, sealed, merkle,
           verification,
           mixed >>

\* the pairing handshake on its own
InitPairing ==
  /\ contactor = ContactorAt("INIT")
  /\ requestor = RequestorAt("INIT")
  /\ wire = EmptyWire
  /\ tampered = {}
  /\ roleCall = None
  /\ shamir = ShamirAt("OFF")
  /\ recovery = RecoveryAt("OFF")
  /\ detect = DetectAt("OFF")
  /\ sharing = SharingAt("OFF")
  /\ sealed = SealedAt("OFF")
  /\ merkle = MerkleAt("OFF")
  /\ verification = VerificationAt("OFF")
  /\ mixed = MixedAt("OFF")

SpecPairing ==
  InitPairing /\ [][NextPairing]_vars

\* Shamir sharing on its own
InitShamir ==
  /\ contactor = ContactorAt("OFF")
  /\ requestor = RequestorAt("OFF")
  /\ wire = EmptyWire
  /\ tampered = {}
  /\ roleCall = None
  /\ shamir = ShamirAt("INIT")
  /\ recovery = RecoveryAt("OFF")
  /\ detect = DetectAt("OFF")
  /\ sharing = SharingAt("OFF")
  /\ sealed = SealedAt("OFF")
  /\ merkle = MerkleAt("OFF")
  /\ verification = VerificationAt("OFF")
  /\ mixed = MixedAt("OFF")

SpecShamir ==
  InitShamir /\ [][NextShamir]_vars

\* sharing and recovery of one secret
InitRecovery ==
  /\ contactor = ContactorAt("OFF")
  /\ requestor = RequestorAt("OFF")
  /\ wire = EmptyWire
  /\ tampered = {}
  /\ roleCall = None
  /\ shamir = ShamirAt("OFF")
  /\ recovery = RecoveryAt("INIT")
  /\ detect = DetectAt("OFF")
  /\ sharing = SharingAt("OFF")
  /\ sealed = SealedAt("OFF")
  /\ merkle = MerkleAt("OFF")
  /\ verification = VerificationAt("OFF")
  /\ mixed = MixedAt("OFF")

SpecRecovery ==
  InitRecovery /\ [][NextRecovery]_vars

\* the consistency check of presented shares
InitDetect ==
  /\ contactor = ContactorAt("OFF")
  /\ requestor = RequestorAt("OFF")
  /\ wire = EmptyWire
  /\ tampered = {}
  /\ roleCall = None
  /\ shamir = ShamirAt("OFF")
  /\ recovery = RecoveryAt("OFF")
  /\ detect = DetectAt("INIT")
  /\ sharing = SharingAt("OFF")
  /\ sealed = SealedAt("OFF")
  /\ merkle = MerkleAt("OFF")
  /\ verification = VerificationAt("OFF")
  /\ mixed = MixedAt("OFF")

SpecDetect ==
  InitDetect /\ [][NextDetect]_vars

\* the calls of protect_secret and generate_share_response
InitSharing ==
  /\ contactor = ContactorAt("OFF")
  /\ requestor = RequestorAt("OFF")
  /\ wire = EmptyWire
  /\ tampered = {}
  /\ roleCall = None
  /\ shamir = ShamirAt("OFF")
  /\ recovery = RecoveryAt("OFF")
  /\ detect = DetectAt("OFF")
  /\ sharing = SharingAt("INIT")
  /\ sealed = SealedAt("OFF")
  /\ merkle = MerkleAt("OFF")
  /\ verification = VerificationAt("OFF")
  /\ mixed = MixedAt("OFF")

SpecSharing ==
  InitSharing /\ [][NextSharing]_vars

\* one frame sealed, carried and opened
InitChannel ==
  /\ contactor = ContactorAt("OFF")
  /\ requestor = RequestorAt("OFF")
  /\ wire = EmptyWire
  /\ tampered = {}
  /\ roleCall = None
  /\ shamir = ShamirAt("OFF")
  /\ recovery = RecoveryAt("OFF")
  /\ detect = DetectAt("OFF")
  /\ sharing = SharingAt("OFF")
  /\ sealed = SealedAt("INIT")
  /\ merkle = MerkleAt("OFF")
  /\ verification = VerificationAt("OFF")
  /\ mixed = MixedAt("OFF")

SpecChannel ==
  InitChannel /\ [][NextChannel]_vars

\* a Merkle tree built and its proofs extracted
InitMerkle ==
  /\ contactor = ContactorAt("OFF")
  /\ requestor = RequestorAt("OFF")
  /\ wire = EmptyWire
  /\ tampered = {}
  /\ roleCall = None
  /\ shamir = ShamirAt("OFF")
  /\ recovery = RecoveryAt("OFF")
  /\ detect = DetectAt("OFF")
  /\ sharing = SharingAt("OFF")
  /\ sealed = SealedAt("OFF")
  /\ merkle = MerkleAt("INIT")
  /\ verification = VerificationAt("OFF")
  /\ mixed = MixedAt("OFF")

SpecMerkle ==
  InitMerkle /\ [][NextMerkle]_vars

\* share verification between a sharer and a helper
InitVerification ==
  /\ contactor = ContactorAt("OFF")
  /\ requestor = RequestorAt("OFF")
  /\ wire = EmptyWire
  /\ tampered = {}
  /\ roleCall = None
  /\ shamir = ShamirAt("OFF")
  /\ recovery = RecoveryAt("OFF")
  /\ detect = DetectAt("OFF")
  /\ sharing = SharingAt("OFF")
  /\ sealed = SealedAt("OFF")
  /\ merkle = MerkleAt("OFF")
  /\ verification = VerificationAt("INIT")
  /\ mixed = MixedAt("OFF")

SpecVerification ==
  InitVerification /\ [][NextVerification]_vars

\* two sharings of one secret id and version, alone
InitMixed ==
  /\ contactor = ContactorAt("OFF")
  /\ requestor = RequestorAt("OFF")
  /\ wire = EmptyWire
  /\ tampered = {}
  /\ roleCall = None
  /\ shamir = ShamirAt("OFF")
  /\ recovery = RecoveryAt("OFF")
  /\ detect = DetectAt("OFF")
  /\ sharing = SharingAt("OFF")
  /\ sealed = SealedAt("OFF")
  /\ merkle = MerkleAt("OFF")
  /\ verification = VerificationAt("OFF")
  /\ mixed = MixedAt("INIT")

SpecMixed ==
  InitMixed /\ [][NextMixed]_vars

\* all the components side by side
Init ==
  /\ contactor = ContactorAt("INIT")
  /\ requestor = RequestorAt("INIT")
  /\ wire = EmptyWire
  /\ tampered = {}
  /\ roleCall = None
  /\ shamir = ShamirAt("INIT")
  /\ recovery = RecoveryAt("INIT")
  /\ detect = DetectAt("INIT")
  /\ sharing = SharingAt("INIT")
  /\ sealed = SealedAt("INIT")
  /\ merkle = MerkleAt("INIT")
  /\ verification = VerificationAt("INIT")
  /\ mixed = MixedAt("INIT")

Next ==
  \/ NextPairing
  \/ NextShamir
  \/ NextRecovery
  \/ NextDetect
  \/ NextSharing
  \/ NextChannel
  \/ NextMerkle
  \/ NextVerification
  \/ NextMixed

Spec == Init /\ [][Next]_vars

(***************************************************************************)
(*                               THE CLAIMS                                *)
(***************************************************************************)
\* the key material of the contact message or of the pair request was
\* altered on its way
MaterialAltered ==
  tampered \cap {"contact_material", "request_material"} # {}

\* C1: when the contact material and the request material are delivered
\* unmodified, no side of the handshake fails, and once both sides are KEYED
\* they hold the same channel key (library flow create_contact_message ->
\* produce_pairing_request_message -> produce_pairing_response_message ->
\* process_pairing_response_message, over finish_pairing_contactor and
\* finish_pairing_requestor).
C1_SameChannelKey ==
  ~MaterialAltered =>
    /\ contactor.pc # "FAILED"
    /\ requestor.pc # "FAILED"
    /\ (contactor.secret # None /\ requestor.secret # None) =>
         LET request == [mlkem_ciphertext |-> wire.request.val.mlkem_ciphertext,
                         ecies_public_key |-> wire.request.val.ecies_public_key]
             contact == [mlkem_encapsulation_key |->
                           requestor.contact.val.mlkem_encapsulation_key,
                         ecies_public_key |->
                           requestor.contact.val.ecies_public_key]
             key_I == finish_pairing_contactor(contactor.secret.val, request)
             key_R == finish_pairing_requestor(requestor.secret.val, contact)
         IN  IsOk(key_I) /\ key_I = key_R
    /\ (contactor.pc = "KEYED" /\ requestor.pc = "KEYED") =>
         /\ contactor.key # None
         /\ contactor.key = requestor.key

\* both sides are KEYED from different seeds, nothing of the key material
\* having been altered
C1_Witness ==
  /\ ~MaterialAltered
  /\ contactor.pc = "KEYED"
  /\ requestor.pc = "KEYED"
  /\ contactor.seed # requestor.seed
  /\ contactor.key = requestor.key

\* C2: a pairing secret's role is fixed at creation (a contactor secret
\* holds a decapsulation key and no ML-KEM shared secret, a requestor secret
\* holds a shared secret and no decapsulation key), and finishing the
\* handshake with the other role's secret returns PairingStateError and no
\* key, whatever material is received.
C2_RoleFixed ==
  /\ contactor.secret # None =>
       /\ contactor.secret.val.mlkem_decapsulation_key # None
       /\ contactor.secret.val.mlkem_shared_secret = None
  /\ requestor.secret # None =>
       /\ requestor.secret.val.mlkem_decapsulation_key = None
       /\ requestor.secret.val.mlkem_shared_secret # None
  /\ roleCall # None => roleCall.result = Err("PairingStateError")

\* finish_pairing_requestor was called with a contactor secret and material
\* it could have derived a key from
C2_Witness ==
  /\ roleCall # None
  /\ roleCall.fn = "finish_pairing_requestor"
  /\ roleCall.received.mlkem_encapsulation_key.len = ENCAPSULATION_KEY_SIZE
  /\ DeserializePoint(roleCall.received.ecies_public_key) # -1
  /\ roleCall.result = Err("PairingStateError")


\* the positions of the responses that are not usable
DefectPositions ==
  { k \in 1..Len(recovery.defects) : recovery.defects[k] # "ok" }

\* the number of OK responses handed to recovery
OkResponses == Len(recovery.responses) - Cardinality(DefectPositions)

\* the error section 4.8 and the documentation of recovery.rs name for a
\* response that is unusable in the given way
DefectError(kind) ==
  CASE kind = "no_result" -> "Response does not contain a result"
    [] kind = "status" -> "Share response indicates an error"
    [] kind = "committed_undecodable" -> "Failed to decode CommittedDeRecShare"
    [] kind = "share_undecodable" -> "Failed to decode DeRecShare"
    [] kind = "secret_id" ->
         "Secret ID in response does not match the requested secret ID"
    [] kind = "version" ->
         "Share version in response does not match the requested version"

\* C3: for every payload, secret_id, version and (t, n) with 1 <= t <= n,
\* recover_from_share_responses on the responses (generate_share_response
\* of the messages of protect_secret) of at least t of the n helpers, in any
\* order, returns exactly the payload.
C3_RecoverRoundTrip ==
  ( /\ recovery.pc = "DONE"
    /\ DefectPositions = {}
    /\ Len(recovery.responses) >= recovery.access[1] )
  => recovery.result = Ok(recovery.payload)

\* a payload of Lambda bytes was recovered from exactly t >= 2 of n > t
\* helpers, the last helper answering first
C3_Witness ==
  /\ recovery.pc = "DONE"
  /\ DefectPositions = {}
  /\ recovery.access[1] >= 2
  /\ recovery.access[2] > recovery.access[1]
  /\ Len(recovery.responses) = recovery.access[1]
  /\ recovery.responses[1] = ResponseOf(recovery.access[2])
  /\ Len(recovery.payload) = Lambda
  /\ recovery.result = Ok(recovery.payload)

C8_FirstUnusableResponse ==
  ( /\ recovery.pc = "DONE"
    /\ DefectPositions # {} )
  => recovery.result =
       Err(DefectError(recovery.defects[
             CHOOSE k \in DefectPositions : \A j \in DefectPositions : k <= j]))

\* recovery got an OK response and then two responses unusable in
\* different ways, and returned the error of the first of the two
C8_Witness ==
  /\ recovery.pc = "DONE"
  /\ Len(recovery.defects) = 3
  /\ recovery.defects[1] = "ok"
  /\ recovery.defects[2] = "version"
  /\ recovery.defects[3] = "no_result"
  /\ recovery.result = Err(DefectError("version"))

\* C9 as stated: whenever the responses handed in hold at least t OK
\* responses of the sharing, recover_from_share_responses returns the
\* secret; an error response among them does not make it fail.
C9_FailsOnlyWhenInsufficient ==
  ( /\ recovery.pc = "DONE"
    /\ OkResponses >= recovery.access[1] )
  => recovery.result = Ok(recovery.payload)

\* C9 as amended: recover_from_share_responses returns the secret when every
\* response handed in is OK and there are at least t of them; one unusable
\* response among the inputs makes the call return an error, however many OK
\* responses come with it.
C9_EveryResponseMustBeUsable ==
  ( /\ recovery.pc = "DONE"
    /\ OkResponses >= recovery.access[1] )
  => /\ DefectPositions = {} => recovery.result = Ok(recovery.payload)
     /\ DefectPositions # {} => IsErr(recovery.result)

\* recovery failed on t OK responses and one helper's error response
C9_Witness ==
  /\ recovery.pc = "DONE"
  /\ OkResponses >= recovery.access[1]
  /\ Cardinality(DefectPositions) = 1
  /\ \E k \in DefectPositions : recovery.defects[k] = "status"
  /\ IsErr(recovery.result)


\* the three conditions of section 4.6.2 on the presented shares
CommitmentsEqual ==
  \A i, j \in 1..Len(detect.presented) :
    detect.presented[i].commitment = detect.presented[j].commitment
CiphertextsEqual ==
  \A i, j \in 1..Len(detect.presented) :
    detect.presented[i].encrypted_secret = detect.presented[j].encrypted_secret
RootsMatch ==
  \A i \in 1..Len(detect.presented) :
    OwnRoot(detect.presented[i]) = detect.presented[i].commitment

\* exactly one field, of the given kind, of one presented share was altered
OneEdit(kind) == Len(detect.edits) = 1 /\ detect.edits[1][2] = kind

\* C5: on a non-empty set of shares detect_error reports no error exactly
\* when all commitments are equal, all encrypted_secret are equal and every
\* share's root recomputed from (x, y) along merkle_path is its commitment;
\* when exactly one of the three is violated the error is the one named for
\* it; altering x, y or a sibling hash of one share gives CorruptShares.
C5_DetectError ==
  detect.pc = "DONE" =>
    /\ detect.result = None
         <=> (CommitmentsEqual /\ CiphertextsEqual /\ RootsMatch)
    /\ (~CommitmentsEqual /\ CiphertextsEqual /\ RootsMatch)
         => detect.result = Some("InconsistentCommitments")
    /\ (CommitmentsEqual /\ ~CiphertextsEqual /\ RootsMatch)
         => detect.result = Some("InconsistentCiphertexts")
    /\ (CommitmentsEqual /\ CiphertextsEqual /\ ~RootsMatch)
         => detect.result = Some("CorruptShares")
    /\ (OneEdit("x") \/ OneEdit("y") \/ OneEdit("sibling_hash"))
         => detect.result = Some("CorruptShares")

\* among several shares one carries another commitment that its own path
\* leads to: only the first condition is violated
C5_Witness ==
  /\ detect.pc = "DONE"
  /\ ~CommitmentsEqual
  /\ CiphertextsEqual
  /\ RootsMatch
  /\ detect.result = Some("InconsistentCommitments")

\* C6 as stated: changing the encrypted_secret of exactly one share of a
\* consistent non-empty set makes the consistency check, and recovery, fail
\* with InconsistentCiphertexts, for every set size, a single share included.
C6_AnySetSize ==
  (detect.pc = "DONE" /\ OneEdit("encrypted_secret")) =>
    /\ detect.result = Some("InconsistentCiphertexts")
    /\ detect.recovered = Err("InconsistentCiphertexts")

\* C6 as amended: changing the encrypted_secret of exactly one share of a
\* consistent set of at least two shares makes the consistency check, and
\* recovery, fail with InconsistentCiphertexts.
C6_TwoOrMoreShares ==
  ( /\ detect.pc = "DONE"
    /\ OneEdit("encrypted_secret")
    /\ Len(detect.presented) >= 2 )
  => /\ detect.result = Some("InconsistentCiphertexts")
     /\ detect.recovered = Err("InconsistentCiphertexts")

\* the encrypted_secret of the first of several shares was changed
C6_Witness ==
  /\ detect.pc = "DONE"
  /\ Len(detect.presented) >= 2
  /\ detect.edits = << << 1, "encrypted_secret" >> >>
  /\ detect.result = Some("InconsistentCiphertexts")

DistinctX(shares) ==
  \A i, j \in 1..Len(shares) : i # j => shares[i][1] # shares[j][1]

\* C10: for every secret of Lambda bytes and every (t, n) with 1 <= t <= n,
\* Shamir recover applied to at least t of the n shares that share returned,
\* in any order and with pairwise distinct x, returns exactly the secret.
C10_ShamirRoundTrip ==
  ( /\ shamir.pc = "DONE"
    /\ Len(shamir.picked) >= shamir.access[1]
    /\ DistinctX(shamir.picked) )
  => shamir.result = Ok(shamir.secret)

\* recover returned the secret from exactly t of n > t shares of a
\* polynomial of degree at least one, handed over out of their order
C10_Witness ==
  /\ shamir.pc = "DONE"
  /\ shamir.access[1] >= 2
  /\ shamir.access[2] > shamir.access[1]
  /\ Len(shamir.picked) = shamir.access[1]
  /\ DistinctX(shamir.picked)
  /\ shamir.picked[1] = shamir.shares[shamir.access[2]]
  /\ shamir.result = Ok(shamir.secret)

\* C11: Shamir recover applied to a share list in which two shares have the
\* same x value reports a reconstruction error as an error outcome to the
\* caller; it neither aborts nor returns a value as the secret.
C11_DuplicateXIsError ==
  ( /\ shamir.pc = "DONE"
    /\ ~DistinctX(shamir.picked) )
  => IsErr(shamir.result)

\* the call of protect_secret has just returned
ProtectReturned == sharing.pc = "CALLED"

SharesMade ==
  vss_share(<< sharing.threshold, Len(sharing.channels) >>,
            sharing.secret_data, sharing.entropy).val

\* a store-share message wraps a VSS share for the caller's secret_id and
\* version
Wraps(msg, share) ==
  LET committed == DecodeCommittedDeRecShare(msg.share)
      inner == DecodeDeRecShare(committed.val.de_rec_share)
  IN  /\ IsOk(committed)
      /\ IsOk(inner)
      /\ inner.val.secret_id = sharing.secret_id
      /\ inner.val.version = sharing.version
      /\ inner.val.x = share.x
      /\ inner.val.y = share.y
      /\ inner.val.encrypted_secret = share.encrypted_secret
      /\ committed.val.commitment = share.commitment
      /\ Len(committed.val.merkle_path) = Len(share.merkle_path)
      /\ \A k \in 1..Len(share.merkle_path) :
           /\ committed.val.merkle_path[k].is_left = share.merkle_path[k][1]
           /\ committed.val.merkle_path[k].hash = share.merkle_path[k][2]
      /\ msg.share_algorithm = 0
      /\ msg.version = inner.val.version

\* the positions of the list of channels whose channel is not listed again
\* at a later position
LastPositions ==
  { i \in 1..Len(sharing.channels) :
      \A j \in (i + 1)..Len(sharing.channels) :
        sharing.channels[j] # sharing.channels[i] }

\* C13 as stated: on success protect_secret maps channels[i] to the message
\* wrapping the i-th VSS share, for every position i (inner DeRecShare with
\* the caller's secret_id and version and the share's x, y and
\* encrypted_secret, CommittedDeRecShare with the share's commitment and
\* merkle_path in order, share_algorithm = 0, version of the inner share).
C13_EveryPosition ==
  (ProtectReturned /\ IsOk(sharing.output)) =>
    LET made == SharesMade
    IN  \A i \in 1..Len(sharing.channels) :
          /\ sharing.channels[i] \in DOMAIN sharing.output.val
          /\ Wraps(sharing.output.val[sharing.channels[i]], made[i])

\* C13: on success protect_secret maps channels[i] to the message wrapping
\* the i-th VSS share for every position i whose channel is not listed again
\* later (every position of a list of pairwise distinct channels); a channel
\* listed again is mapped to the message of its last position.
C13_LastPositionOfChannel ==
  (ProtectReturned /\ IsOk(sharing.output)) =>
    LET made == SharesMade
    IN  /\ DOMAIN sharing.output.val
             = { sharing.channels[i] : i \in 1..Len(sharing.channels) }
        /\ \A i \in 1..Len(sharing.channels) :
             LET last == CHOOSE j \in LastPositions :
                           sharing.channels[j] = sharing.channels[i]
             IN  Wraps(sharing.output.val[sharing.channels[i]], made[last])

\* a sharing over three positions whose first channel is listed again last:
\* that channel holds the message of the third share, not of the first
C13_Witness ==
  /\ sharing.pc = "CALLED"
  /\ IsOk(sharing.output)
  /\ Len(sharing.channels) = 3
  /\ sharing.channels[1] = sharing.channels[3]
  /\ sharing.channels[1] # sharing.channels[2]
  /\ sharing.version = MaxVersion
  /\ Wraps(sharing.output.val[sharing.channels[1]], SharesMade[3])
  /\ ~Wraps(sharing.output.val[sharing.channels[1]], SharesMade[1])
  /\ Wraps(sharing.output.val[sharing.channels[2]], SharesMade[2])

\* the share a store-share message carries, as recovery reads it
ShareIn(msg) ==
  extract_share_from_response(
    generate_share_response(0, sharing.secret_id,
      generate_share_request(0, sharing.secret_id, sharing.version), msg),
    sharing.secret_id, sharing.version).val

\* the shares of all the messages protect_secret returned, in the order of
\* the channels
SharesSent ==
  LET kept == SelectSeq([i \in 1..Len(sharing.channels) |-> i],
                        LAMBDA i : i \in LastPositions)
  IN  [k \in 1..Len(kept) |->
         ShareIn(sharing.output.val[sharing.channels[kept[k]]])]

\* C14: all the store-share messages of one protect_secret call carry
\* byte-identical encrypted_secret and byte-identical commitment, so the full
\* set of shares of one sharing passes the commitment and ciphertext equality
\* tests of detect_error.
C14_SameCiphertextAndCommitment ==
  (ProtectReturned /\ IsOk(sharing.output)) =>
    /\ \A a, b \in 1..Len(SharesSent) :
         /\ SharesSent[a].encrypted_secret = SharesSent[b].encrypted_secret
         /\ SharesSent[a].commitment = SharesSent[b].commitment
    /\ detect_error(SharesSent) \notin
         { Some("InconsistentCommitments"), Some("InconsistentCiphertexts") }

\* three messages for three channels carrying a ciphertext of a payload of
\* several bytes, found consistent
C14_Witness ==
  /\ sharing.pc = "CALLED"
  /\ IsOk(sharing.output)
  /\ Len(SharesSent) = 3
  /\ Len(sharing.secret_data) = 2
  /\ SharesSent[1].x # SharesSent[3].x
  /\ detect_error(SharesSent) = None

\* C15: for every depth d >= 1 and every n <= 2^d shares, each of the n
\* paths that extract_merkle_proofs returns over the tree of
\* build_merkle_tree has exactly d (is_left, sibling hash) entries, and
\* folding the leaf hash H(x || y) along the path as detect_error does
\* (sibling on the left when is_left) yields the root of the tree.
C15_PathsVerify ==
  ( /\ merkle.pc = "EXTRACTED"
    /\ merkle.n = Len(merkle.shares) )
  => /\ IsOk(merkle.proofs)
     /\ Len(merkle.proofs.val) = merkle.n
     /\ \A i \in 1..merkle.n :
          /\ Len(merkle.proofs.val[i]) = merkle.depth
          /\ FoldPath(leaf_hash(merkle.shares[i]), merkle.proofs.val[i])
               = merkle.tree[1]

\* the paths of three shares in a tree of depth 2 with one padding leaf
C15_Witness ==
  /\ merkle.pc = "EXTRACTED"
  /\ merkle.depth = 2
  /\ Len(merkle.shares) = 3
  /\ merkle.n = 3
  /\ IsOk(merkle.proofs)
  /\ merkle.proofs.val[3][1] = << FALSE, RandomLeaf(merkle.seed, 3) >>
  /\ FoldPath(leaf_hash(merkle.shares[2]), merkle.proofs.val[2]) = merkle.tree[1]

\* C16: for all keys, nonce seeds and plaintexts,
\* decrypt_message(encrypt_message(msg, key, seed), key) returns msg.
C16_SealOpenRoundTrip ==
  (sealed.pc = "OPENED" /\ sealed.edit = None)
    => sealed.opened = Ok(sealed.msg)

\* a frame of three bytes of ciphertext, none of them the plaintext byte,
\* opened to the plaintext
C16_Witness ==
  /\ sealed.pc = "OPENED"
  /\ sealed.edit = None
  /\ Len(sealed.msg) = 3
  /\ Len(sealed.frame) = NonceLen + 3 + TagLen
  /\ \A i \in 1..3 : sealed.frame[NonceLen + i] # sealed.msg[i]
  /\ sealed.opened = Ok(sealed.msg)

\* C17: changing any single byte of a sealed frame (in the nonce prefix, in
\* the ciphertext body or in the tag) makes decrypt_message under the same
\* key return the authentication error DecryptionError and no plaintext.
C17_TamperedFrameRejected ==
  ( /\ sealed.pc = "OPENED"
    /\ sealed.edit # None
    /\ sealed.edit.val[1] = "byte" )
  => sealed.opened = Err("DecryptionError")

\* a byte of the nonce prefix of a frame with a ciphertext body was changed
C17_Witness ==
  /\ sealed.pc = "OPENED"
  /\ sealed.edit = Some(<< "byte", 1 >>)
  /\ Len(sealed.msg) >= 2
  /\ sealed.frame[1] # sealed.sent[1]
  /\ sealed.opened = Err("DecryptionError")

\* C18: the pairing nonce is echoed by the producers: the pair request that
\* produce_pairing_request_message returns carries the nonce of the contact
\* message it was built from, and the pair response that
\* produce_pairing_response_message returns carries the nonce of the pair
\* request it answers.
C18_ProducersEchoNonce ==
  /\ (wire.request # None /\ "request_nonce" \notin tampered)
       => wire.request.val.nonce = requestor.contact.val.nonce
  /\ (wire.response # None /\ "response_nonce" \notin tampered)
       => wire.response.val.nonce = wire.request.val.nonce

\* a contact message whose nonce was altered before the requestor read it:
\* the request and the response carry the nonce that was read
C18_Witness ==
  /\ tampered = { "contact_nonce" }
  /\ wire.response # None
  /\ requestor.contact.val.nonce = MaxNonce + 1
  /\ wire.request.val.nonce = MaxNonce + 1
  /\ wire.response.val.nonce = MaxNonce + 1

\* the nonce of the contact message as the contactor issued it
IssuedNonce ==
  IF "contact_nonce" \in tampered THEN wire.contact.val.nonce - 1
  ELSE wire.contact.val.nonce

\* C19: nonce echo is enforced on receipt: process_pairing_response_message
\* yields no channel key when the nonce of the pair response differs from the
\* nonce of the contact message, and the contactor yields no channel key for
\* a pair request whose nonce differs from the nonce of the contact message
\* it issued.
C19_NonceEnforcedOnReceipt ==
  /\ requestor.pc = "KEYED"
       => wire.response.val.nonce = requestor.contact.val.nonce
  /\ contactor.pc = "KEYED"
       => wire.request.val.nonce = IssuedNonce

\* C20: generate_share_response returns the stored blob verbatim: for every
\* stored StoreShareRequestMessage and every request, the response has
\* committed_de_rec_share byte-equal to stored.share, share_algorithm = 0 and
\* result.status = OK.
C20_StoredBlobVerbatim ==
  sharing.pc = "ANSWERED" =>
    /\ sharing.response.val.committed_de_rec_share = sharing.stored.val.share
    /\ sharing.response.val.share_algorithm = 0
    /\ sharing.response.val.result # None
    /\ sharing.response.val.result.val.status = StatusOk

\* a helper holding a message that names another share algorithm answers a
\* request for another secret and version with the blob it holds
C20_Witness ==
  /\ sharing.pc = "ANSWERED"
  /\ sharing.stored.val.share_algorithm = 1
  /\ sharing.request.val.secret_id # sharing.secret_id
  /\ sharing.request.val.share_version # sharing.version
  /\ sharing.stored.val.share = sharing.output.val[sharing.channel].share
  /\ sharing.response.val.committed_de_rec_share = sharing.stored.val.share
  /\ sharing.response.val.share_algorithm = 0

\* C21: for every share blob and every verification request,
\* generate_verification_response returns a response with status OK, the
\* version and the nonce of the request and hash = SHA-384(share_blob ||
\* nonce); verify_share_response with the same share blob accepts it.
C21_ResponseVerifies ==
  (verification.response # None /\ verification.edit = None) =>
    LET response == verification.response.val
        request == verification.asked.val
    IN  /\ response.result # None
        /\ response.result.val.status = StatusOk
        /\ response.version = request.version
        /\ response.nonce = request.nonce
        /\ response.hash = Sha384(verification.blob \o request.nonce)
        /\ ( /\ verification.pc = "VERIFIED"
             /\ verification.expected = verification.blob )
             => verification.result = Ok(TRUE)

\* the answer of the helper of the second of several channels, for a blob
\* of two bytes, was accepted
C21_Witness ==
  /\ verification.pc = "VERIFIED"
  /\ verification.edit = None
  /\ Len(verification.channels) >= 2
  /\ verification.channel = verification.channels[2]
  /\ verification.channel # verification.channels[1]
  /\ verification.blob = << 1, 2 >>
  /\ verification.expected = verification.blob
  /\ verification.version = MaxVersion
  /\ verification.result = Ok(TRUE)

\* C22: verify_share_response accepts a response if and only if
\* response.hash equals SHA-384(expected_share_blob || response.nonce);
\* changing the expected share content, the nonce of the response or the
\* hash of the response after an honest response was produced makes it
\* report verification failure instead of accepting.
C22_AcceptsIffHashMatches ==
  verification.pc = "VERIFIED" =>
    LET response == verification.response.val
        matches == response.hash
                     = Sha384(verification.expected \o response.nonce)
    IN  /\ matches => verification.result = Ok(TRUE)
        /\ ~matches
             => verification.result = Err("Verification failed: Hash mismatch")
        /\ ( \/ /\ verification.edit = None
                /\ verification.expected # verification.blob
             \/ /\ verification.edit \in { Some("nonce"), Some("hash") }
                /\ verification.expected = verification.blob )
             => IsErr(verification.result)

\* the nonce of an honest response was changed and the response refused
C22_Witness ==
  /\ verification.pc = "VERIFIED"
  /\ verification.edit = Some("nonce")
  /\ verification.expected = verification.blob
  /\ verification.response.val.nonce # verification.asked.val.nonce
  /\ verification.response.val.hash
       = Sha384(verification.blob \o verification.asked.val.nonce)
  /\ IsErr(verification.result)

\* the sharer has polled again since the response was produced
PolledAgain ==
  /\ verification.pc = "VERIFIED"
  /\ Len(verification.seeds) >= 2

C24_DecodeFailuresAreErrors ==
  /\ ( /\ requestor.pc = "FAILED"
       /\ requestor.contact.val.mlkem_encapsulation_key.len
            # ENCAPSULATION_KEY_SIZE )
     => IsErr(pairing_request_message(
                requestor.seed,
                [mlkem_encapsulation_key
                   |-> requestor.contact.val.mlkem_encapsulation_key,
                 ecies_public_key |-> requestor.contact.val.ecies_public_key]))
  /\ ( /\ contactor.pc = "FAILED"
       /\ wire.request # None
       /\ wire.request.val.mlkem_ciphertext.len # CIPHERTEXT_SIZE )
     => IsErr(finish_pairing_contactor(
                contactor.secret.val,
                [mlkem_ciphertext |-> wire.request.val.mlkem_ciphertext,
                 ecies_public_key |-> wire.request.val.ecies_public_key]))

\* C25: for every depth d >= 1 and every list of at most 2^d shares,
\* build_merkle_tree returns a complete binary tree of 2^(d+1) - 1 nodes in
\* which the node labelled k (root = 1, k < 2^d) equals
\* SHA-256(node 2k || node 2k+1) and the leaf labelled 2^d + i equals
\* SHA-256(x_i || y_i) for every share index i, the remaining leaves being
\* padding values.
C25_TreeWellFormed ==
  merkle.pc \in { "BUILT", "EXTRACTED" } =>
    LET leaves == 2 ^ merkle.depth
    IN  /\ Len(merkle.shares) <= leaves
        /\ Len(merkle.tree) = 2 ^ (merkle.depth + 1) - 1
        /\ \A k \in 1..(leaves - 1) :
             merkle.tree[k]
               = compute_sha256_hash(merkle.tree[2 * k] \o merkle.tree[2 * k + 1])
        /\ \A i \in 0..(leaves - 1) :
             merkle.tree[leaves + i]
               = IF i < Len(merkle.shares)
                 THEN compute_sha256_hash(merkle.shares[i + 1][1]
                                            \o merkle.shares[i + 1][2])
                 ELSE RandomLeaf(merkle.seed, i)

\* a tree of depth 2 over three shares: seven nodes, the last a padding
\* value, the root over two inner nodes that differ
C25_Witness ==
  /\ merkle.pc = "BUILT"
  /\ merkle.depth = 2
  /\ Len(merkle.shares) = 3
  /\ Len(merkle.tree) = 7
  /\ merkle.tree[7] = RandomLeaf(merkle.seed, 3)
  /\ merkle.tree[2] # merkle.tree[3]
  /\ merkle.tree[1] = compute_sha256_hash(merkle.tree[2] \o merkle.tree[3])

\* the channel ids of the list handed to protect_secret
ChannelIds == { sharing.channels[i] : i \in 1..Len(sharing.channels) }

\* C26: protect_secret and generate_verification_request return one map
\* entry per distinct channel id: with pairwise distinct ids the result has
\* exactly |channels| entries, each holding a different share (resp. its own
\* nonce); when an id is repeated only the last share (resp. request)
\* paired with it is kept, so the result holds fewer than |channels|
\* entries while the sharing was still made for n = |channels|.
C26_OneEntryPerChannelId ==
  ProtectReturned =>
    LET n == Len(sharing.channels)
        last(c) == CHOOSE j \in LastPositions : sharing.channels[j] = c
    IN  /\ IsOk(sharing.output) =>
             LET made == SharesMade
                 kept == sharing.output.val
             IN  /\ DOMAIN kept = ChannelIds
                 /\ Cardinality(DOMAIN kept) <= n
                 /\ Cardinality(DOMAIN kept) = n
                      <=> Cardinality(ChannelIds) = n
                 /\ \A c, d \in DOMAIN kept : c # d => kept[c] # kept[d]
                 /\ \A c \in DOMAIN kept :
                      /\ kept[c] = StoreShareRequestOf(made[last(c)],
                                      sharing.secret_id, sharing.version)
                      /\ Len(DecodeCommittedDeRecShare(kept[c].share)
                               .val.merkle_path) = TreeDepth(n)
        /\ \A seed \in Seeds :
             LET r == generate_verification_request(
                        sharing.secret_id, sharing.channels,
                        sharing.version, seed)
             IN  /\ IsOk(r)
                 /\ DOMAIN r.val = ChannelIds
                 /\ \A c, d \in DOMAIN r.val :
                      c # d => r.val[c].nonce # r.val[d].nonce
                 /\ \A c \in DOMAIN r.val :
                      /\ r.val[c].version = sharing.version
                      /\ r.val[c].nonce = VerifyNonce(seed, last(c))

\* a sharing for three positions over two channel ids: two entries, with
\* Merkle paths of the depth of a tree over three shares
C26_Witness ==
  /\ sharing.pc = "CALLED"
  /\ IsOk(sharing.output)
  /\ Len(sharing.channels) = 3
  /\ sharing.threshold = 3
  /\ sharing.channels[2] = sharing.channels[3]
  /\ Cardinality(DOMAIN sharing.output.val) = 2
  /\ Len(DecodeCommittedDeRecShare(
           sharing.output.val[sharing.channels[2]].share).val.merkle_path) = 2
  /\ Cardinality(DOMAIN generate_verification_request(
                   sharing.secret_id, sharing.channels,
                   sharing.version, 0).val) = 2

\* C27: the key returned by process_pairing_response_message depends only
\* on the contact message and the requestor's secret: for two pair
\* responses that differ in any field (result status, nonce, sender kind) it
\* returns the same key, so a response reporting a non-OK status still
\* leaves the requestor keyed.
C27_KeyIgnoresResponse ==
  ( /\ requestor.secret # None
    /\ requestor.contact # None
    /\ wire.response # None )
  => LET received == wire.response.val
         key(response) == process_pairing_response_message(
                            requestor.contact.val, response,
                            requestor.secret.val)
     IN  /\ \A a \in AlteredResponses(received) :
              key(a[2]) = key(received)
         /\ LET derived == finish_pairing_requestor(
                             requestor.secret.val,
                             [mlkem_encapsulation_key
                                |-> requestor.contact.val.mlkem_encapsulation_key,
                              ecies_public_key
                                |-> requestor.contact.val.ecies_public_key])
            IN  key(received) = IF IsOk(derived) THEN derived ELSE Panic
         /\ requestor.pc = "KEYED" => Some(key(received).val) = requestor.key
         /\ requestor.pc = "FAILED" => ~IsOk(key(received))

\* the requestor was keyed by a response whose status is not OK
C27_Witness ==
  /\ requestor.pc = "KEYED"
  /\ wire.response # None
  /\ wire.response.val.result.status = StatusFail
  /\ tampered = { "response_status" }
  /\ requestor.key # None
  /\ requestor.key = contactor.key

\* C28: decrypt_message returns an error value, and does not abort, for
\* every input byte string, frames shorter than the nonce prefix and the
\* empty frame included.
C28_ShortFrameIsError ==
  ( /\ sealed.pc = "OPENED"
    /\ sealed.edit # None
    /\ sealed.edit.val[1] = "cut"
    /\ Len(sealed.frame) < NonceLen )
  => IsErr(sealed.opened)

\* C29: recover_from_share_responses called with an empty list of responses
\* returns an error value; it neither aborts nor returns a secret.
C29_NoResponsesIsError ==
  recovery.pc = "DONE_EMPTY" => IsErr(recovery.result)

\* the shares recover_from_share_responses reads out of the responses
MixedShares ==
  ExtractAll(mixed.responses, mixed.secret_id, mixed.version, << >>)

\* the sharings the responses come from
MixedSharings == { mixed.order[j][1] : j \in 1..Len(mixed.order) }

\* C30: responses from two different protect_secret invocations with the
\* same secret_id and version are never combined into a secret: if the list
\* passed to recover_from_share_responses contains shares of both sharing
\* events, the consistency check reports InconsistentCommitments or
\* InconsistentCiphertexts and recovery returns an error, whatever the
\* order of the responses.
C30_SharingsNeverCombined ==
  (mixed.pc = "DONE" /\ MixedSharings = { 1, 2 }) =>
    /\ IsOk(MixedShares)
    /\ detect_error(MixedShares.val)
         \in { Some("InconsistentCommitments"), Some("InconsistentCiphertexts") }
    /\ mixed.result = Err("Failed to reconstruct secret from shares")

\* three responses, the first of the second sharing and the last of the
\* first, of two sharings of the same payload, were refused
C30_Witness ==
  /\ mixed.pc = "DONE"
  /\ Len(mixed.order) = 3
  /\ mixed.order[1][1] = 2
  /\ mixed.order[2][1] = 2
  /\ mixed.order[3][1] = 1
  /\ mixed.payloads[1] = mixed.payloads[2]
  /\ Len(mixed.payloads[1]) = Lambda
  /\ IsErr(mixed.result)

====
